---------------------------- MODULE Spec2Model ----------------------------
(***************************************************************************)
(* Model of the ManifestWASM build-manifest codec: the byte reader and     *)
(* writer, the section codecs (Meta, ChunkList, FileList, CustomFields,    *)
(* ChunkPart), the envelope (FManifestHeader) and FManifestParser::parse / *)
(* FManifest::serialize.  Bytes are naturals 0..255, byte streams are      *)
(* sequences of bytes, strings are sequences of Unicode code points.      *)
(***************************************************************************)
EXTENDS Integers, Sequences, FiniteSets, TLC

(* ------------------------------ bounds --------------------------------- *)

\* parse/serialize cycles a run goes through after its first parse
MaxRounds == 1
\* chunk entries in a generated chunk list
MaxChunks == 1
\* file entries in a generated file list
MaxFiles == 1
\* key/value pairs in a generated custom-field map
MaxFields == 1

(* ------------------------- program constants --------------------------- *)

MANIFEST_MAGIC == 1153351692
SHA1_DIGEST_SIZE == 20
MD5_DIGEST_SIZE == 16
SHA256_DIGEST_SIZE == 32

(* ----------------------------- sequences ------------------------------- *)

Range(s) == {s[i] : i \in DOMAIN s}

Take(s, n) == SubSeq(s, 1, n)

Drop(s, n) == SubSeq(s, n + 1, Len(s))

RECURSIVE Concat(_)
\* the concatenation of a sequence of byte sequences
Concat(ss) == IF ss = <<>> THEN <<>> ELSE Head(ss) \o Concat(Tail(ss))

RECURSIVE SumSeq(_)
SumSeq(s) == IF s = <<>> THEN 0 ELSE Head(s) + SumSeq(Tail(s))

Repeat(b, n) == [i \in 1..n |-> b]

\* s with the byte at 0-based offset off replaced by b
SetByte(s, off, b) == [s EXCEPT ![off + 1] = b]

(* ------------------- little-endian integers (writer) ------------------- *)

RECURSIVE LE(_, _)
\* to_le_bytes of a natural n in w bytes
LE(n, w) == IF w = 0 THEN <<>> ELSE <<n % 256>> \o LE((n \div 256), w - 1)

RECURSIVE FromLE(_)
\* from_le_bytes of an unsigned integer
FromLE(bs) == IF bs = <<>> THEN 0 ELSE Head(bs) + 256 * FromLE(Tail(bs))

\* the one's complement of every byte
Complement(bs) == [i \in DOMAIN bs |-> 255 - bs[i]]

\* to_le_bytes of a signed integer in w bytes (two's complement)
SLE(v, w) == IF v >= 0 THEN LE(v, w) ELSE Complement(LE(-(v + 1), w))

\* from_le_bytes of a signed (two's complement) integer
FromSLE(bs) ==
    IF bs[Len(bs)] < 128 THEN FromLE(bs) ELSE -FromLE(Complement(bs)) - 1

(* ------------------------------ UTF-8 ---------------------------------- *)

IsCont(b) == b >= 128 /\ b <= 191

\* String::as_bytes of one code point
Utf8Char(cp) ==
    IF cp < 128 THEN <<cp>>
    ELSE IF cp < 2048 THEN <<192 + (cp \div 64), 128 + (cp % 64)>>
    ELSE IF cp < 65536
         THEN <<224 + (cp \div 4096), 128 + ((cp \div 64) % 64), 128 + (cp % 64)>>
    ELSE <<240 + (cp \div 262144), 128 + ((cp \div 4096) % 64),
           128 + ((cp \div 64) % 64), 128 + (cp % 64)>>

RECURSIVE Utf8Encode(_)
Utf8Encode(s) == IF s = <<>> THEN <<>> ELSE Utf8Char(Head(s)) \o Utf8Encode(Tail(s))

\* number of bytes of the well-formed UTF-8 sequence at the head of bs, 0 if none
Utf8Width(bs) ==
    LET n  == Len(bs)
        b1 == bs[1]
    IN  IF b1 < 128 THEN 1
        ELSE IF b1 >= 194 /\ b1 <= 223
             THEN IF n >= 2 /\ IsCont(bs[2]) THEN 2 ELSE 0
        ELSE IF b1 >= 224 /\ b1 <= 239
             THEN IF /\ n >= 3 /\ IsCont(bs[2]) /\ IsCont(bs[3])
                     /\ (b1 = 224 => bs[2] >= 160)
                     /\ (b1 = 237 => bs[2] <= 159)
                  THEN 3 ELSE 0
        ELSE IF b1 >= 240 /\ b1 <= 244
             THEN IF /\ n >= 4 /\ IsCont(bs[2]) /\ IsCont(bs[3]) /\ IsCont(bs[4])
                     /\ (b1 = 240 => bs[2] >= 144)
                     /\ (b1 = 244 => bs[2] <= 143)
                  THEN 4 ELSE 0
        ELSE 0

\* the code point of a well-formed UTF-8 sequence of w bytes
Utf8CodePoint(bs, w) ==
    IF w = 1 THEN bs[1]
    ELSE IF w = 2 THEN (bs[1] - 192) * 64 + (bs[2] - 128)
    ELSE IF w = 3 THEN (bs[1] - 224) * 4096 + (bs[2] - 128) * 64 + (bs[3] - 128)
    ELSE (bs[1] - 240) * 262144 + (bs[2] - 128) * 4096
         + (bs[3] - 128) * 64 + (bs[4] - 128)

RECURSIVE Utf8Valid(_)
Utf8Valid(bs) ==
    IF bs = <<>> THEN TRUE
    ELSE LET w == Utf8Width(bs)
         IN  w > 0 /\ Utf8Valid(Drop(bs, w))

RECURSIVE Utf8Decode(_)
\* String::from_utf8 of valid bytes
Utf8Decode(bs) ==
    IF bs = <<>> THEN <<>>
    ELSE LET w == Utf8Width(bs)
         IN  <<Utf8CodePoint(bs, w)>> \o Utf8Decode(Drop(bs, w))

(* ------------------------------ UTF-16 --------------------------------- *)

RECURSIVE Units(_)
\* the native (little-endian) u16 view of a byte buffer of even length
Units(bs) == IF Len(bs) < 2 THEN <<>>
             ELSE <<bs[1] + 256 * bs[2]>> \o Units(Drop(bs, 2))

IsHighSurrogate(u) == u >= 55296 /\ u <= 56319

IsLowSurrogate(u) == u >= 56320 /\ u <= 57343

RECURSIVE Utf16Lossy(_)
\* U16String::to_string_lossy: pairs combine, a lone surrogate becomes U+FFFD
Utf16Lossy(us) ==
    IF us = <<>> THEN <<>>
    ELSE IF IsHighSurrogate(us[1]) /\ Len(us) >= 2 /\ IsLowSurrogate(us[2])
         THEN <<65536 + (us[1] - 55296) * 1024 + (us[2] - 56320)>>
              \o Utf16Lossy(Drop(us, 2))
    ELSE IF IsHighSurrogate(us[1]) \/ IsLowSurrogate(us[1])
         THEN <<65533>> \o Utf16Lossy(Tail(us))
    ELSE <<us[1]>> \o Utf16Lossy(Tail(us))

(* --------------------------- SHA-1 and zlib ---------------------------- *)

RECURSIVE WeightedSum(_, _, _, _)
\* the sum, modulo 65521, of (bs[i] + c) * (Len(bs) - i + 1) ^ e over lo..hi,
\* e being 0, 1 or 2; the range is halved so that long payloads stay shallow
WeightedSum(bs, lo, hi, ce) ==
    IF lo > hi THEN 0
    ELSE IF lo = hi
         THEN LET w == (Len(bs) - lo + 1) % 65521
                  v == bs[lo] + ce[1]
              IN  IF ce[2] = 0 THEN v
                  ELSE IF ce[2] = 1 THEN (v * w) % 65521
                  ELSE (((v * w) % 65521) * (w % 251)) % 65521
    ELSE LET mid == (lo + hi) \div 2
         IN  (WeightedSum(bs, lo, mid, ce) + WeightedSum(bs, mid + 1, hi, ce)) % 65521

\* FSHAHash::new_from_hashable: the digest of a byte string, SHA1_DIGEST_SIZE
\* bytes wide.  The sha1 crate is stood in for by two checksums of the bytes:
\* what the codec relies on is a fixed-width function of the whole payload.
Sha1(bs) == LE(WeightedSum(bs, 1, Len(bs), <<1, 1>>), 2)
            \o LE(WeightedSum(bs, 1, Len(bs), <<1, 2>>), 2)
            \o Repeat(0, SHA1_DIGEST_SIZE - 4)

\* the low half of Adler-32: 1 plus the sum of the bytes, modulo 65521
AdlerA(bs) == (1 + WeightedSum(bs, 1, Len(bs), <<0, 0>>)) % 65521

\* the high half of Adler-32: the sum of the running low halves, modulo 65521
AdlerB(bs) == (Len(bs) + WeightedSum(bs, 1, Len(bs), <<0, 1>>)) % 65521

\* the big-endian Adler-32 trailer of a zlib stream
Adler32(bs) ==
    LET a == AdlerA(bs)
        b == AdlerB(bs)
    IN  <<b \div 256, b % 256, a \div 256, a % 256>>

\* ZlibEncoder::write_all + finish.  The stream is a valid zlib stream holding
\* the data in one stored block: header 78 01, block header 01 LEN NLEN, the
\* data, the Adler-32 of the data.
Deflate(bs) ==
    <<120, 1, 1>> \o LE(Len(bs), 2) \o Complement(LE(Len(bs), 2))
    \o bs \o Adler32(bs)

\* ZlibDecoder::read_to_end: [ok, data].  Bytes after the end of the stream are
\* not read; a truncated or damaged stream is an error.
Inflate(z) ==
    LET bad == [ok |-> FALSE, data |-> <<>>]
    IN  IF Len(z) < 11 THEN bad
        ELSE IF z[1] # 120 \/ z[2] # 1 \/ z[3] # 1 THEN bad
        ELSE LET n == FromLE(SubSeq(z, 4, 5))
             IN  IF SubSeq(z, 6, 7) # Complement(SubSeq(z, 4, 5)) THEN bad
                 ELSE IF Len(z) < 11 + n THEN bad
                 ELSE LET d == SubSeq(z, 8, 7 + n)
                      IN  IF SubSeq(z, 8 + n, 11 + n) # Adler32(d) THEN bad
                          ELSE [ok |-> TRUE, data |-> d]

(* ------------------------------- state --------------------------------- *)

VARIABLES
    build,          \* how the crate was built and what lies behind its buffers
    mode,           \* "serialize": a manifest value is written first;
                    \* "parse": a byte stream is read first
    pc,             \* the step the run is at
    round,          \* parse/serialize cycles completed
    src,            \* the manifest value FManifest::serialize was last applied to
    man,            \* the manifest value FManifest::serialize is applied to next
    input,          \* FManifestParser.data: the byte stream given to parse
    reader,         \* the payload ByteReader returned by FManifestHeader::parse
    hdr,            \* the FManifestHeader read by the running parse
    meta,           \* the FManifestMeta read by the running parse
    chunk_list,     \* the FChunkList read by the running parse
    file_list,      \* the FFileManifestList read by the running parse
    custom_fields,  \* the FCustomFields read by the running parse
    result,         \* "running", "ok", a ParseError kind, or "panic"
    failed_at,      \* the stage whose error ended the parse, "" if none
    swallowed,      \* a read error was turned into None by .ok() in this parse
    stages,         \* the stages this parse has run, in order, each with the
                    \* cursor it started from and the cursor it left behind
    call            \* the last call made on a ByteReader used on its own: the
                    \* operation, its argument, the cursor before it, what it
                    \* returned and, for a value written back, the bytes written

vars == <<build, mode, pc, round, src, man, input, reader, hdr, meta, chunk_list,
          file_list, custom_fields, result, failed_at, swallowed, stages, call>>

(* ----------------------------- ByteReader ------------------------------ *)

\* a ParseResult: err is "" for Ok, pos is the cursor the call leaves behind,
\* lost tells whether a read error was turned into None on the way
Ok(pos, val) == [err |-> "", pos |-> pos, val |-> val, lost |-> FALSE]

Err(kind, pos) == [err |-> kind, pos |-> pos, val |-> <<>>, lost |-> FALSE]

\* r, marked when a read error was dropped before it was reached
Lossy(r, lost) == [r EXCEPT !.lost = @ \/ lost]

\* the `?` operator: the error of r is returned at once, otherwise the rest of
\* the function, K, goes on from r
Try(r, K(_)) == IF r.err # "" THEN r ELSE Lossy(K(r), r.lost)

\* Result::map
Map(r, F(_)) == IF r.err # "" THEN r ELSE [r EXCEPT !.val = F(r.val)]

\* `let v = ...;`
Let(v, K(_)) == K(v)

\* Result::ok() on a read: Some(value) or None, <<v>> or <<>>; the error is
\* dropped and the function goes on (a panic is no Result and still unwinds)
ok(r) ==
    IF r.err = "panic" THEN r
    ELSE IF r.err = "" THEN [r EXCEPT !.val = <<r.val>>]
    ELSE [err |-> "", pos |-> r.pos, val |-> <<>>, lost |-> TRUE]

\* a read_bytes that leaves the cursor at the end of the data when it fails
read_bytes_to_end(data, pos, size) ==
    IF pos < 0 \/ size > Len(data) - pos THEN Err("Overflow", Len(data))
    ELSE Ok(pos + size, SubSeq(data, pos + 1, pos + size))

\* ByteReader::read_bytes.  A cursor seek() has put within reach of usize::MAX
\* is held as the negative number -k, for 2^64 - k: position + size then
\* wraps when size >= k.  A build with overflow checks panics on the sum;
\* another compares the wrapped sum with the length and, when the check
\* passes, panics on the index self.data[self.position].
read_bytes(data, pos, size) ==
    IF pos < 0 /\ size >= -pos
    THEN IF build.overflow_checks \/ size + pos <= Len(data) THEN Err("panic", pos)
         ELSE Err("Overflow", pos)
    ELSE IF pos < 0 \/ size > Len(data) - pos THEN Err("Overflow", pos)
    ELSE Ok(pos + size, SubSeq(data, pos + 1, pos + size))

\* ByteReadable for u8, u16, u32, u64
read_uint(data, pos, width) ==
    Map(read_bytes(data, pos, width), LAMBDA bytes : FromLE(bytes))

\* ByteReadable for i8, i16, i32, i64
read_int(data, pos, width) ==
    Map(read_bytes(data, pos, width), LAMBDA bytes : FromSLE(bytes))

\* a conversion that drops the last byte whatever it is: what C14 rules out
c_string_unterminated(bytes, pos) ==
    IF \/ Len(bytes) = 0
       \/ 0 \in Range(Take(bytes, Len(bytes) - 1))
       \/ ~Utf8Valid(Take(bytes, Len(bytes) - 1))
    THEN Err("InvalidData", pos)
    ELSE Ok(pos, Utf8Decode(Take(bytes, Len(bytes) - 1)))

\* CString::from_vec_with_nul(..) then into_string(), both mapped to
\* InvalidData: the text of a buffer that ends in its only NUL and is valid
\* UTF-8 before it
c_string(bytes, pos) ==
    IF \/ Len(bytes) = 0
       \/ bytes[Len(bytes)] # 0
       \/ 0 \in Range(Take(bytes, Len(bytes) - 1))
       \/ ~Utf8Valid(Take(bytes, Len(bytes) - 1))
    THEN Err("InvalidData", pos)
    ELSE Ok(pos, Utf8Decode(Take(bytes, Len(bytes) - 1)))

\* the UTF-16 branch of ByteReadable for String, for a negative length prefix.
\* (length * -2) overflows i32 below -(2^30 - 1): a build with overflow checks
\* panics; another wraps, i32::MIN to 0 and anything else to a negative i32
\* whose cast to usize is 2^64 - k: read_bytes then reports Overflow, unless
\* position + size itself wraps (position >= k) and Vec::with_capacity panics.
\* U16String::from_ptr is given the BYTE count as its count of u16 units, so
\* it reads as many bytes again behind the buffer: whatever the heap holds
\* there (build.heap), or a fault.
read_utf16(data, pos, length) ==
    IF length < -1073741823
    THEN IF build.overflow_checks THEN Err("panic", pos)
         ELSE IF length = -2147483647 - 1 THEN Ok(pos, <<>>)
         ELSE IF pos \div 2 >= (2147483647 + length) + 1 THEN Err("panic", pos)
         ELSE Err("Overflow", pos)
    ELSE Try(read_bytes(data, pos, -2 * length), LAMBDA r :
             IF build.heap < 0 THEN Err("panic", r.pos)
             ELSE Ok(r.pos, Utf16Lossy(Units(r.val \o Repeat(build.heap, Len(r.val))))))

\* ByteReadable for String
read_string(data, pos) ==
    Try(read_int(data, pos, 4), LAMBDA length :
        IF length.val = 0 THEN Ok(length.pos, <<>>)
        ELSE IF length.val > 0
             THEN Try(read_bytes(data, length.pos, length.val), LAMBDA r :
                      c_string(r.val, r.pos))
        ELSE read_utf16(data, length.pos, length.val))

RECURSIVE read_strings(_, _, _)
\* the loop of ByteReader::read_array: count strings, each read with `?`
read_strings(data, pos, count) ==
    IF count = 0 THEN Ok(pos, <<>>)
    ELSE Try(read_string(data, pos), LAMBDA r :
             Map(read_strings(data, r.pos, count - 1), LAMBDA rest : <<r.val>> \o rest))

\* ByteReader::read_array with the item reader |reader| reader.read::<String>()
read_array(data, pos) ==
    Try(read_uint(data, pos, 4), LAMBDA c :
        IF c.val = 0 THEN Ok(c.pos, <<>>) ELSE read_strings(data, c.pos, c.val))

\* ByteReadable for FGuid: the limbs a, b, c, d, four u32
read_guid(data, pos) ==
    Try(read_uint(data, pos, 4), LAMBDA a :
    Try(read_uint(data, a.pos, 4), LAMBDA b :
    Try(read_uint(data, b.pos, 4), LAMBDA c :
    Try(read_uint(data, c.pos, 4), LAMBDA d :
        Ok(d.pos, [a |-> a.val, b |-> b.val, c |-> c.val, d |-> d.val])))))

\* ByteReadable for FSHAHash
read_sha(data, pos) == read_bytes(data, pos, SHA1_DIGEST_SIZE)

\* UnknownHash::<DIGEST_LENGTH>::from_byte_reader
from_byte_reader(data, pos, digest_length) == read_bytes(data, pos, digest_length)

\* reader.read::<T>() for the type named by kind
read(kind, data, pos) ==
    CASE kind = "u8"       -> read_uint(data, pos, 1)
      [] kind = "u16"      -> read_uint(data, pos, 2)
      [] kind = "u32"      -> read_uint(data, pos, 4)
      [] kind = "u64"      -> read_uint(data, pos, 8)
      [] kind = "i8"       -> read_int(data, pos, 1)
      [] kind = "i16"      -> read_int(data, pos, 2)
      [] kind = "i32"      -> read_int(data, pos, 4)
      [] kind = "i64"      -> read_int(data, pos, 8)
      [] kind = "String"   -> read_string(data, pos)
      [] kind = "Array"    -> read_array(data, pos)
      [] kind = "FGuid"    -> read_guid(data, pos)
      [] kind = "FSHAHash" -> read_sha(data, pos)

RECURSIVE read_seq(_, _, _)
\* consecutive reads `reader.read()?` of the types named by kinds: the values
\* in order, or the first error
read_seq(kinds, data, pos) ==
    IF kinds = <<>> THEN Ok(pos, <<>>)
    ELSE Try(read(Head(kinds), data, pos), LAMBDA r :
             Map(read_seq(Tail(kinds), data, r.pos), LAMBDA rest : <<r.val>> \o rest))

\* one column: `for entry in entries.iter_mut() { entry.field = reader.read()?; }`
read_column(kind, data, pos, count) == read_seq([i \in 1..count |-> kind], data, pos)

(* ----------------------------- ByteWriter ------------------------------ *)

\* what a buffer holds once a write has panicked
Poison == <<-1>>

Panicked(bytes) == -1 \in Range(bytes)

\* ByteWritable for String: CString::new(..).unwrap() panics on an inner NUL
write_string(s) ==
    IF s = <<>> THEN SLE(0, 4)
    ELSE IF 0 \in Range(s) THEN Poison
    ELSE LET bytes == Utf8Encode(s) \o <<0>>
         IN  SLE(Len(bytes), 4) \o bytes

RECURSIVE write_strings(_)
write_strings(items) ==
    IF items = <<>> THEN <<>>
    ELSE write_string(Head(items)) \o write_strings(Tail(items))

\* ByteWriter::write_array
write_array(items) == LE(Len(items), 4) \o write_strings(items)

\* ByteWritable for FGuid
write_guid(g) == LE(g.a, 4) \o LE(g.b, 4) \o LE(g.c, 4) \o LE(g.d, 4)

\* Option<String> written as the string, None as String::new()
write_opt_string(o) == IF o # <<>> THEN write_string(o[1]) ELSE write_string(<<>>)

(* ------------------------------- enums --------------------------------- *)

\* the labels of EFeatureLevel in the order EFeatureLevel::from_i32 numbers
\* them from 0
FeatureLabels ==
    <<"Original", "CustomFields", "StartStoringVersion", "DataFileRenames",
      "StoresIfChunkOrFileData", "StoresDataGroupNumbers",
      "ChunkCompressionSupport", "StoresPrerequisitesInfo",
      "StoresChunkFileSizes", "StoredAsCompressedUClass", "Unused0", "Unused1",
      "StoresChunkDataShaHashes", "StoresPrerequisiteIds", "StoredAsBinaryData",
      "VariableSizeChunksWithoutWindowSizeChunkInfo", "VariableSizeChunks",
      "UsesRuntimeGeneratedBuildId", "UsesBuildTimeGeneratedBuildId",
      "LatestPlusOne", "Latest", "LatestNoChunks", "LatestJson",
      "FirstOptimisedDelta", "StoresUniqueBuildId">>

\* EFeatureLevel::from_i32: <<label>> for Some(label), <<>> for None
from_i32(value) ==
    IF value >= 0 /\ value < Len(FeatureLabels) THEN <<FeatureLabels[value + 1]>>
    ELSE IF value = 255 THEN <<"BrokenJsonVersion">>
    ELSE IF value = -1 THEN <<"Invalid">>
    ELSE <<>>

\* EFeatureLevel::to_i32
to_i32(level) ==
    CASE level = "Latest"              -> 19 - 1
      [] level = "LatestNoChunks"      -> 8
      [] level = "LatestJson"          -> 13
      [] level = "FirstOptimisedDelta" -> 17
      [] level = "StoresUniqueBuildId" -> 17
      [] level = "BrokenJsonVersion"   -> 255
      [] level = "Invalid"             -> -1
      [] OTHER -> (CHOOSE i \in 1..20 : FeatureLabels[i] = level) - 1

\* ByteWritable for EFeatureLevel
write_feature_level(level) == SLE(to_i32(level), 4)

\* impl From<u8> for EManifestStorageFlags, reached through try_from: the match
\* has no error arm, its last arm panics
storage_from_u8(value) ==
    CASE value = 0 -> "None"
      [] value = 1 -> "Compressed"
      [] value = 2 -> "Encrypted"
      [] OTHER -> "panic"

\* ByteWritable for EManifestStorageFlags: *self as u8
write_storage(flag) ==
    CASE flag = "None" -> <<0>>
      [] flag = "Compressed" -> <<1>>
      [] flag = "Encrypted" -> <<2>>

(* -------------------------------- Meta --------------------------------- *)

\* the size check of FManifestMeta::parse.  The message of the error branch
\* subtracts the cursor from meta_size in u32.
meta_finish(metadata, meta_size, pos) ==
    IF pos # meta_size
    THEN IF meta_size < pos /\ build.overflow_checks
         THEN Err("panic", pos)
         ELSE Err("InvalidData", pos)
    ELSE Ok(pos, metadata)

\* the version-gated reads of FManifestMeta::parse, each ended by .ok()
meta_optional(metadata, data_version, meta_size, data, pos) ==
    Try(IF data_version >= 1 THEN ok(read_string(data, pos)) ELSE Ok(pos, <<>>),
        LAMBDA build_id :
    Try(IF data_version >= 2 THEN ok(read_string(data, build_id.pos))
        ELSE Ok(build_id.pos, <<>>),
        LAMBDA uninstall_action_path :
    Try(IF data_version >= 2 THEN ok(read_string(data, uninstall_action_path.pos))
        ELSE Ok(uninstall_action_path.pos, <<>>),
        LAMBDA uninstall_action_args :
        meta_finish([metadata EXCEPT
                        !.build_id = build_id.val,
                        !.uninstall_action_path = uninstall_action_path.val,
                        !.uninstall_action_args = uninstall_action_args.val],
                    meta_size, uninstall_action_args.pos))))

\* FManifestMeta::parse
meta_parse(data, pos) ==
    Try(read_seq(<<"u32", "u8", "i32">>, data, pos), LAMBDA h :
        IF from_i32(h.val[3]) = <<>> THEN Err("InvalidData", h.pos)
        ELSE Try(read_seq(<<"u8", "u32", "String", "String", "String", "String",
                            "Array", "String", "String", "String">>, data, h.pos),
                 LAMBDA f :
                 meta_optional(
                    [feature_level  |-> from_i32(h.val[3])[1],
                     b_is_file_data |-> f.val[1] = 1,
                     app_id         |-> f.val[2],
                     app_name       |-> f.val[3],
                     build_version  |-> f.val[4],
                     launch_exe     |-> f.val[5],
                     launch_command |-> f.val[6],
                     prerequisites  |-> <<>>,
                     prereq_name    |-> f.val[8],
                     prereq_path    |-> f.val[9],
                     prereq_args    |-> f.val[10],
                     build_id       |-> <<>>,
                     prereq_ids     |-> f.val[7],
                     uninstall_action_path |-> <<>>,
                     uninstall_action_args |-> <<>>],
                    h.val[2], h.val[1], data, f.pos)))

\* the dry run of FManifestMeta::write into temp_writer
meta_write_temp(m, data_version) ==
    Concat(<<LE(data_version, 1),
             write_feature_level(m.feature_level),
             LE(IF m.b_is_file_data THEN 1 ELSE 0, 1),
             LE(m.app_id, 4),
             write_string(m.app_name),
             write_string(m.build_version),
             write_string(m.launch_exe),
             write_string(m.launch_command),
             write_array(m.prereq_ids),
             write_string(m.prereq_name),
             write_string(m.prereq_path),
             write_string(m.prereq_args),
             IF data_version >= 1 THEN write_opt_string(m.build_id) ELSE <<>>,
             IF data_version >= 2
             THEN write_opt_string(m.uninstall_action_path)
                  \o write_opt_string(m.uninstall_action_args)
             ELSE <<>> >>)

\* FManifestMeta::write: the size from the dry run, then the fields again
meta_write(m, data_version) ==
    LET meta_size == Len(meta_write_temp(m, data_version)) + 4
    IN  Concat(<<LE(meta_size, 4),
                 LE(data_version, 1),
                 write_feature_level(m.feature_level),
                 LE(IF m.b_is_file_data THEN 1 ELSE 0, 1),
                 LE(m.app_id, 4),
                 write_string(m.app_name),
                 write_string(m.build_version),
                 write_string(m.launch_exe),
                 write_string(m.launch_command),
                 write_array(m.prereq_ids),
                 write_string(m.prereq_name),
                 write_string(m.prereq_path),
                 write_string(m.prereq_args),
                 IF data_version >= 1 THEN write_opt_string(m.build_id) ELSE <<>>,
                 IF data_version >= 2
                 THEN write_opt_string(m.uninstall_action_path)
                      \o write_opt_string(m.uninstall_action_args)
                 ELSE <<>> >>)

(* ------------------------------ ChunkPart ------------------------------ *)

\* FChunkPart::parse
chunk_part_parse(data, pos, file_offset) ==
    Try(read_seq(<<"u32", "FGuid", "u32", "u32">>, data, pos), LAMBDA r :
        IF pos + r.val[1] # r.pos THEN Err("SizeMismatch", r.pos)
        ELSE Ok(r.pos, [size |-> r.val[4], guid |-> r.val[2], offset |-> r.val[3],
                        file_offset |-> file_offset]))

\* a dry run that leaves the last field out: what C11 rules out
chunk_part_write_temp_short(part) == write_guid(part.guid) \o LE(part.offset, 4)

\* the dry run of FChunkPart::write into temp_writer
chunk_part_write_temp(part) ==
    write_guid(part.guid) \o LE(part.offset, 4) \o LE(part.size, 4)

\* FChunkPart::write
chunk_part_write(part) ==
    LET struct_size == Len(chunk_part_write_temp(part)) + 4
    IN  LE(struct_size, 4) \o write_guid(part.guid) \o LE(part.offset, 4)
        \o LE(part.size, 4)

RECURSIVE chunk_parts_loop(_, _, _, _)
\* `for _ in 0..part_count`: parse a part at the running file_offset, add its
\* size to file_offset, push it
chunk_parts_loop(data, pos, part_count, file_offset) ==
    IF part_count = 0 THEN Ok(pos, <<>>)
    ELSE Try(chunk_part_parse(data, pos, file_offset), LAMBDA part :
             Map(chunk_parts_loop(data, part.pos, part_count - 1,
                                  file_offset + part.val.size),
                 LAMBDA rest : <<part.val>> \o rest))

RECURSIVE chunk_parts_column(_, _, _)
\* `for entry in entries.iter_mut()`: a u32 part count, then that many parts
chunk_parts_column(data, pos, count) ==
    IF count = 0 THEN Ok(pos, <<>>)
    ELSE Try(read_uint(data, pos, 4), LAMBDA part_count :
         Try(chunk_parts_loop(data, part_count.pos, part_count.val, 0), LAMBDA parts :
             Map(chunk_parts_column(data, parts.pos, count - 1),
                 LAMBDA rest : <<parts.val>> \o rest)))

RECURSIVE chunk_parts_write(_)
chunk_parts_write(parts) ==
    IF parts = <<>> THEN <<>>
    ELSE chunk_part_write(Head(parts)) \o chunk_parts_write(Tail(parts))

(* ------------------------------ ChunkList ------------------------------ *)

\* FChunkList::parse
chunk_list_parse(data, pos, manifest_version) ==
    Try(read_seq(<<"u32", "u8", "u32">>, data, pos), LAMBDA h :
    Try(read_column("FGuid", data, h.pos, h.val[3]), LAMBDA guid :
    Try(read_column("u64", data, guid.pos, h.val[3]), LAMBDA hash :
    Try(read_column("FSHAHash", data, hash.pos, h.val[3]), LAMBDA sha_hash :
    Try(read_column("u8", data, sha_hash.pos, h.val[3]), LAMBDA group_num :
    Try(read_column("u32", data, group_num.pos, h.val[3]), LAMBDA uncompressed_size :
    Try(read_column("i64", data, uncompressed_size.pos, h.val[3]),
        LAMBDA compressed_size :
        IF pos + h.val[1] # compressed_size.pos
        THEN Err("InvalidData", compressed_size.pos)
        ELSE Ok(compressed_size.pos,
                [_manifest_version |-> manifest_version,
                 _size    |-> h.val[1],
                 _version |-> h.val[2],
                 chunks   |-> [i \in 1..h.val[3] |->
                     [guid |-> guid.val[i], hash |-> hash.val[i],
                      sha_hash |-> sha_hash.val[i], group_num |-> group_num.val[i],
                      uncompressed_size |-> uncompressed_size.val[i],
                      compressed_size |-> compressed_size.val[i]]]]))))))))

\* the dry run of FChunkList::write into temp_writer
chunk_list_write_temp(cl) ==
    LET n == Len(cl.chunks)
    IN  Concat(<<LE(cl._version, 1),
                 LE(n, 4),
                 Concat([i \in 1..n |-> write_guid(cl.chunks[i].guid)]),
                 Concat([i \in 1..n |-> LE(cl.chunks[i].hash, 8)]),
                 Concat([i \in 1..n |-> cl.chunks[i].sha_hash]),
                 Concat([i \in 1..n |-> LE(cl.chunks[i].group_num, 1)]),
                 Concat([i \in 1..n |-> LE(cl.chunks[i].uncompressed_size, 4)]),
                 Concat([i \in 1..n |-> SLE(cl.chunks[i].compressed_size, 8)])>>)

\* a writer that emits the uncompressed sizes before the group numbers
chunk_list_write_sizes_first(cl) ==
    LET n    == Len(cl.chunks)
        size == Len(chunk_list_write_temp(cl)) + 4
    IN  Concat(<<LE(size, 4),
                 LE(cl._version, 1),
                 LE(n, 4),
                 Concat([i \in 1..n |-> write_guid(cl.chunks[i].guid)]),
                 Concat([i \in 1..n |-> LE(cl.chunks[i].hash, 8)]),
                 Concat([i \in 1..n |-> cl.chunks[i].sha_hash]),
                 Concat([i \in 1..n |-> LE(cl.chunks[i].uncompressed_size, 4)]),
                 Concat([i \in 1..n |-> LE(cl.chunks[i].group_num, 1)]),
                 Concat([i \in 1..n |-> SLE(cl.chunks[i].compressed_size, 8)])>>)

\* FChunkList::write: the size from the dry run, then version, count and the
\* six columns again
chunk_list_write(cl) ==
    LET n    == Len(cl.chunks)
        size == Len(chunk_list_write_temp(cl)) + 4
    IN  Concat(<<LE(size, 4),
                 LE(cl._version, 1),
                 LE(n, 4),
                 Concat([i \in 1..n |-> write_guid(cl.chunks[i].guid)]),
                 Concat([i \in 1..n |-> LE(cl.chunks[i].hash, 8)]),
                 Concat([i \in 1..n |-> cl.chunks[i].sha_hash]),
                 Concat([i \in 1..n |-> LE(cl.chunks[i].group_num, 1)]),
                 Concat([i \in 1..n |-> LE(cl.chunks[i].uncompressed_size, 4)]),
                 Concat([i \in 1..n |-> SLE(cl.chunks[i].compressed_size, 8)])>>)

\* a lookup that compares the first limb only
find_by_guid_first_limb(cl, guid) ==
    LET hits == {i \in DOMAIN cl.chunks : cl.chunks[i].guid.a = guid.a}
    IN  IF hits = {} THEN <<>>
        ELSE <<cl.chunks[CHOOSE i \in hits : \A j \in hits : i <= j]>>

\* FChunkList::find_by_guid: <<chunk>> for Some(chunk), <<>> for None
find_by_guid(cl, guid) ==
    LET hits == {i \in DOMAIN cl.chunks : cl.chunks[i].guid = guid}
    IN  IF hits = {} THEN <<>>
        ELSE <<cl.chunks[CHOOSE i \in hits : \A j \in hits : i <= j]>>

(* ------------------------------ FileList ------------------------------- *)

RECURSIVE md5_column(_, _, _)
\* per entry: has_md5 (u32, `?`); when non-zero, MD5_DIGEST_SIZE bytes whose
\* read error .ok() turns into None
md5_column(data, pos, count) ==
    IF count = 0 THEN Ok(pos, <<>>)
    ELSE Try(read_uint(data, pos, 4), LAMBDA has_md5 :
         Try(IF has_md5.val # 0
             THEN ok(from_byte_reader(data, has_md5.pos, MD5_DIGEST_SIZE))
             ELSE Ok(has_md5.pos, <<>>),
             LAMBDA hash_md5 :
             Map(md5_column(data, hash_md5.pos, count - 1),
                 LAMBDA rest : <<hash_md5.val>> \o rest)))

RECURSIVE optional_column(_, _, _, _)
\* per entry: a read whose error .ok() turns into None ("String" for the MIME
\* types, anything else for the SHA-256 hashes)
optional_column(kind, data, pos, count) ==
    IF count = 0 THEN Ok(pos, <<>>)
    ELSE Try(ok(IF kind = "String" THEN read_string(data, pos)
                ELSE from_byte_reader(data, pos, SHA256_DIGEST_SIZE)),
             LAMBDA r :
             Map(optional_column(kind, data, r.pos, count - 1),
                 LAMBDA rest : <<r.val>> \o rest))

\* what FFileManifestList::parse does after the chunk parts: the version-gated
\* columns, file_size of every entry, the size check
file_list_finish(entries, reader_start, size, version, count, data, pos) ==
    Try(IF version >= 1 THEN md5_column(data, pos, count)
        ELSE Ok(pos, [i \in 1..count |-> <<>>]),
        LAMBDA hash_md5 :
    Try(IF version >= 1 THEN optional_column("String", data, hash_md5.pos, count)
        ELSE Ok(hash_md5.pos, [i \in 1..count |-> <<>>]),
        LAMBDA mime_type :
    Try(IF version >= 2 THEN optional_column("UnknownHash", data, mime_type.pos, count)
        ELSE Ok(mime_type.pos, [i \in 1..count |-> <<>>]),
        LAMBDA hash_sha256 :
        IF reader_start + size # hash_sha256.pos
        THEN Err("InvalidData", hash_sha256.pos)
        ELSE Ok(hash_sha256.pos,
                [_version |-> version, _size |-> size, _count |-> count,
                 entries  |-> [i \in 1..count |->
                    [entries[i] EXCEPT
                       !.hash_md5    = hash_md5.val[i],
                       !.mime_type   = mime_type.val[i],
                       !.hash_sha256 = hash_sha256.val[i],
                       !.file_size   =
                          SumSeq([j \in DOMAIN entries[i].chunk_parts |->
                                     entries[i].chunk_parts[j].size])]]]))))

\* FFileManifestList::parse
file_list_parse(data, pos) ==
    Try(read_seq(<<"u32", "u8", "u32">>, data, pos), LAMBDA h :
    Try(read_column("String", data, h.pos, h.val[3]), LAMBDA filename :
    Try(read_column("String", data, filename.pos, h.val[3]), LAMBDA syslink_target :
    Try(read_column("FSHAHash", data, syslink_target.pos, h.val[3]), LAMBDA hash :
    Try(read_column("u8", data, hash.pos, h.val[3]), LAMBDA flags :
    Try(read_column("Array", data, flags.pos, h.val[3]), LAMBDA install_tags :
    Try(chunk_parts_column(data, install_tags.pos, h.val[3]), LAMBDA chunk_parts :
        file_list_finish(
           [i \in 1..h.val[3] |->
              [filename |-> filename.val[i],
               syslink_target |-> syslink_target.val[i],
               hash |-> hash.val[i], flags |-> flags.val[i],
               install_tags |-> install_tags.val[i],
               chunk_parts |-> chunk_parts.val[i],
               mime_type |-> <<>>, hash_md5 |-> <<>>,
               hash_sha256 |-> <<>>, file_size |-> 0]],
           pos, h.val[1], h.val[2], h.val[3], data, chunk_parts.pos))))))))

\* one entry's chunk parts as FFileManifestList::write emits them: the part
\* count, then every part through FChunkPart::write
entry_parts_write(entry) ==
    LE(Len(entry.chunk_parts), 4) \o chunk_parts_write(entry.chunk_parts)

\* one entry's MD5 slot: has_md5 = 1 and the hash, or has_md5 = 0
entry_md5_write(entry) ==
    IF entry.hash_md5 # <<>> THEN LE(1, 4) \o entry.hash_md5[1] ELSE LE(0, 4)

\* the dry run of FFileManifestList::write into temp_writer
file_list_write_temp(fl) ==
    LET e == fl.entries
        n == Len(e)
    IN  Concat(<<LE(fl._version, 1),
                 LE(n, 4),
                 Concat([i \in 1..n |-> write_string(e[i].filename)]),
                 Concat([i \in 1..n |-> write_string(e[i].syslink_target)]),
                 Concat([i \in 1..n |-> e[i].hash]),
                 Concat([i \in 1..n |-> LE(e[i].flags, 1)]),
                 Concat([i \in 1..n |-> write_array(e[i].install_tags)]),
                 Concat([i \in 1..n |-> entry_parts_write(e[i])]),
                 IF fl._version >= 1
                 THEN Concat([i \in 1..n |-> entry_md5_write(e[i])])
                      \o Concat([i \in 1..n |-> write_opt_string(e[i].mime_type)])
                 ELSE <<>>,
                 IF fl._version >= 2
                 THEN Concat([i \in 1..n |->
                        IF e[i].hash_sha256 # <<>> THEN e[i].hash_sha256[1] ELSE <<>>])
                 ELSE <<>> >>)

\* FFileManifestList::write: the size from the dry run, then the columns again
file_list_write(fl) ==
    LET e    == fl.entries
        n    == Len(e)
        size == Len(file_list_write_temp(fl)) + 4
    IN  Concat(<<LE(size, 4),
                 LE(fl._version, 1),
                 LE(n, 4),
                 Concat([i \in 1..n |-> write_string(e[i].filename)]),
                 Concat([i \in 1..n |-> write_string(e[i].syslink_target)]),
                 Concat([i \in 1..n |-> e[i].hash]),
                 Concat([i \in 1..n |-> LE(e[i].flags, 1)]),
                 Concat([i \in 1..n |-> write_array(e[i].install_tags)]),
                 Concat([i \in 1..n |-> entry_parts_write(e[i])]),
                 IF fl._version >= 1
                 THEN Concat([i \in 1..n |-> entry_md5_write(e[i])])
                      \o Concat([i \in 1..n |-> write_opt_string(e[i].mime_type)])
                 ELSE <<>>,
                 IF fl._version >= 2
                 THEN Concat([i \in 1..n |->
                        IF e[i].hash_sha256 # <<>> THEN e[i].hash_sha256[1] ELSE <<>>])
                 ELSE <<>> >>)

(* ---------------------------- CustomFields ----------------------------- *)

\* HashMap::insert
Insert(fields, key, value) ==
    [k \in DOMAIN fields \cup {key} |-> IF k = key THEN value ELSE fields[k]]

RECURSIVE custom_pairs(_, _, _, _)
\* `for _ in 0..count`: key and value read with `?`, inserted into the map
custom_pairs(data, pos, count, fields) ==
    IF count <= 0 THEN Ok(pos, fields)
    ELSE Try(read_seq(<<"String", "String">>, data, pos), LAMBDA r :
             custom_pairs(data, r.pos, count - 1, Insert(fields, r.val[1], r.val[2])))

\* FCustomFields::parse.  count takes the integer fallback type i32 (nothing
\* else fixes it): a negative count makes fields.reserve(count as usize)
\* panic with a capacity overflow.
custom_fields_parse(data, pos) ==
    Try(read_seq(<<"u32", "u8", "i32">>, data, pos), LAMBDA h :
        IF h.val[3] < 0 THEN Err("panic", h.pos)
        ELSE Try(custom_pairs(data, h.pos, h.val[3], <<>>), LAMBDA r :
                 IF pos + h.val[1] # r.pos THEN Err("SizeMismatch", r.pos)
                 ELSE Ok(r.pos, [_size |-> h.val[1], _version |-> h.val[2],
                                 fields |-> r.val])))

\* the dry run of FCustomFields::write into temp_writer; order is the order in
\* which the HashMap iterates over its keys
custom_fields_write_temp(cf, order) ==
    Concat(<<LE(cf._version, 1),
             LE(Cardinality(DOMAIN cf.fields), 4),
             Concat([i \in DOMAIN order |->
                       write_string(order[i]) \o write_string(cf.fields[order[i]])])>>)

\* FCustomFields::write: the size from the dry run, then the pairs again
custom_fields_write(cf, order) ==
    LET size == Len(custom_fields_write_temp(cf, order)) + 4
    IN  Concat(<<LE(size, 4),
                 LE(cf._version, 1),
                 LE(Cardinality(DOMAIN cf.fields), 4),
                 Concat([i \in DOMAIN order |->
                           write_string(order[i]) \o write_string(cf.fields[order[i]])])>>)

\* the orders in which a HashMap with these keys can iterate
Orders(keys) ==
    {o \in [1..Cardinality(keys) -> keys] : \A i, j \in DOMAIN o : i # j => o[i] # o[j]}

(* ------------------------------ envelope ------------------------------- *)

\* a parser that accepts every magic: what C5 rules out
magic_unchecked(magic) == FALSE

\* `if magic != MANIFEST_MAGIC`
magic_mismatch(magic) == magic # MANIFEST_MAGIC

\* a parser that takes the declared header size as it comes: what C6 rules out
offset_unchecked(header_size, tell) == FALSE

\* `if header_size != manifest.reader.tell() as u32`
offset_mismatch(header_size, tell) == header_size # tell

\* a payload stage that compares the hash before the inflated length: what C7
\* rules out
header_payload_hash_first(header, data, pos) ==
    Try(read_bytes(data, pos, Len(data) - header.header_size), LAMBDA d :
        IF header.stored_as = "Compressed"
        THEN Let(Inflate(d.val), LAMBDA z :
                 IF ~z.ok THEN Err("DecompressionError", d.pos)
                 ELSE IF Sha1(z.data) # header.sha_hash
                      THEN Err("HashMismatch", d.pos)
                 ELSE IF Len(z.data) # header.data_size_uncompressed
                      THEN Err("DecompressionError", d.pos)
                 ELSE Ok(d.pos, [header |-> header, data |-> z.data]))
        ELSE Ok(d.pos, [header |-> header, data |-> d.val]))

\* the payload stage of FManifestHeader::parse: the bytes after the header,
\* inflated and hash-checked when stored_as is Compressed, taken as they are
\* otherwise
header_payload(header, data, pos) ==
    Try(read_bytes(data, pos, Len(data) - header.header_size), LAMBDA d :
        IF header.stored_as = "Compressed"
        THEN Let(Inflate(d.val), LAMBDA z :
                 IF ~z.ok THEN Err("DecompressionError", d.pos)
                 ELSE IF Len(z.data) # header.data_size_uncompressed
                      THEN Err("DecompressionError", d.pos)
                 ELSE IF Sha1(z.data) # header.sha_hash
                      THEN Err("HashMismatch", d.pos)
                 ELSE Ok(d.pos, [header |-> header, data |-> z.data]))
        ELSE Ok(d.pos, [header |-> header, data |-> d.val]))

\* FManifestHeader::parse: [err, pos, val = [header, data]]; pos is the cursor
\* of the stream reader, data the bytes of the payload reader it returns
header_parse(data) ==
    Try(read_uint(data, 0, 4), LAMBDA magic :
        IF magic_mismatch(magic.val) THEN Err("InvalidMagic", magic.pos)
        ELSE
    Try(read_seq(<<"u32", "u32", "u32", "FSHAHash", "u8">>, data, magic.pos), LAMBDA f :
        IF storage_from_u8(f.val[5]) = "panic" THEN Err("panic", f.pos)
        ELSE
    Try(read_int(data, f.pos, 4), LAMBDA version :
        IF from_i32(version.val) = <<>> THEN Err("InvalidData", version.pos)
        ELSE IF offset_mismatch(f.val[1], version.pos)
             THEN Err("OffsetMismatch", version.pos)
        ELSE header_payload(
               [magic |-> magic.val,
                header_size |-> f.val[1],
                data_size_uncompressed |-> f.val[2],
                data_size_compressed |-> f.val[3],
                sha_hash |-> f.val[4],
                stored_as |-> storage_from_u8(f.val[5]),
                version |-> from_i32(version.val)[1]],
               data, version.pos))))

\* FManifestHeader::write_with_data: the magic, the header size measured on a
\* scratch header, the fields, the payload
write_with_data(header, manifest_data) ==
    LET temp_header_writer ==
            Concat(<<LE(0, 4), LE(0, 4),
                     LE(header.data_size_uncompressed, 4),
                     LE(header.data_size_compressed, 4),
                     header.sha_hash,
                     write_storage(header.stored_as),
                     write_feature_level(header.version)>>)
        header_size == Len(temp_header_writer)
    IN  Concat(<<LE(header.magic, 4),
                 LE(header_size, 4),
                 LE(header.data_size_uncompressed, 4),
                 LE(header.data_size_compressed, 4),
                 header.sha_hash,
                 write_storage(header.stored_as),
                 write_feature_level(header.version),
                 manifest_data>>)

\* the section bytes FManifest::serialize writes into data_writer: Meta always
\* at data version 2, then chunk list, file list and custom fields
uncompressed_data(m, order) ==
    Concat(<<meta_write(m.meta, 2),
             chunk_list_write(m.chunk_list),
             file_list_write(m.file_list),
             custom_fields_write(m.custom_fields, order)>>)

\* a serialize that never deflates
final_data_never_deflated(stored_as, data) == data

\* the bytes FManifest::serialize puts after the header
final_data(stored_as, data) ==
    IF stored_as = "Compressed" THEN Deflate(data) ELSE data

\* FManifest::serialize
serialize(m, order) ==
    Let(uncompressed_data(m, order), LAMBDA data :
    Let(final_data(m.header.stored_as, data), LAMBDA body :
        IF Panicked(data) THEN Poison
        ELSE write_with_data(
               [magic |-> m.header.magic,
                header_size |-> 0,
                data_size_uncompressed |-> Len(data),
                data_size_compressed |-> Len(body),
                sha_hash |-> Sha1(data),
                stored_as |-> m.header.stored_as,
                version |-> m.header.version],
               body)))

(* ------------------------- manifest values ----------------------------- *)

None == <<>>

Some(v) == <<v>>

\* FGuid, FSHAHash and UnknownHash values told apart by one number
Guid(i) == [a |-> i, b |-> 2, c |-> 3, d |-> 4]

Digest(i, width) == Repeat(i, width)

\* a header as FManifestHeader::new or the JSON bridge builds it: sizes and
\* hash are whatever the caller stored
HeaderOf(magic, stored_as) ==
    [magic |-> magic, header_size |-> 0, data_size_uncompressed |-> 0,
     data_size_compressed |-> 0, sha_hash |-> Digest(0, SHA1_DIGEST_SIZE),
     stored_as |-> stored_as, version |-> "UsesBuildTimeGeneratedBuildId"]

MetaOf(build_id, uninstall_action_path, uninstall_action_args) ==
    [feature_level  |-> "UsesBuildTimeGeneratedBuildId",
     b_is_file_data |-> FALSE,
     app_id         |-> 7,
     app_name       |-> <<65, 112, 112>>,
     build_version  |-> <<49>>,
     launch_exe     |-> <<>>,
     launch_command |-> <<>>,
     prerequisites  |-> <<>>,
     prereq_name    |-> <<>>,
     prereq_path    |-> <<>>,
     prereq_args    |-> <<>>,
     build_id       |-> build_id,
     prereq_ids     |-> <<<<80>>>>,
     uninstall_action_path |-> uninstall_action_path,
     uninstall_action_args |-> uninstall_action_args]

\* the Meta a producer writes at data version v: the fields that version has
WireMeta(v) ==
    MetaOf(IF v >= 1 THEN Some(<<66>>) ELSE None,
           IF v >= 2 THEN Some(<<85>>) ELSE None,
           IF v >= 2 THEN Some(<<>>) ELSE None)

ChunkOf(i) ==
    [guid |-> Guid(i), hash |-> 1000 + i, sha_hash |-> Digest(i, SHA1_DIGEST_SIZE),
     group_num |-> i, uncompressed_size |-> 100 * i, compressed_size |-> 50 * i]

ChunkListOf(n) ==
    [_manifest_version |-> "UsesBuildTimeGeneratedBuildId", _size |-> 0,
     _version |-> 0, chunks |-> [i \in 1..n |-> ChunkOf(i)]]

\* a file of two parts, the second of a chunk no chunk list holds; opt tells
\* whether the optional MD5, MIME type and SHA-256 are Some or None
FileOf(i, opt) ==
    [filename       |-> <<104, 233, 48 + i>>,
     syslink_target |-> <<>>,
     hash           |-> Digest(10 + i, SHA1_DIGEST_SIZE),
     flags          |-> 5,
     install_tags   |-> <<<<84>>>>,
     chunk_parts    |-> <<[size |-> 10, guid |-> Guid(1), offset |-> 0,
                           file_offset |-> 0],
                          [size |-> 20 + i, guid |-> Guid(99), offset |-> 5,
                           file_offset |-> 10]>>,
     mime_type      |-> IF opt THEN Some(<<109>>) ELSE None,
     hash_md5       |-> IF opt THEN Some(Digest(20 + i, MD5_DIGEST_SIZE)) ELSE None,
     hash_sha256    |-> IF opt THEN Some(Digest(171, SHA256_DIGEST_SIZE)) ELSE None,
     file_size      |-> 30 + i]

FileListOf(version, n, opt) ==
    [_version |-> version, _size |-> 0, _count |-> n,
     entries |-> [i \in 1..n |-> FileOf(i, opt)]]

\* the file list a producer writes at data version v: MIME types from version
\* 1, SHA-256 hashes from version 2
WireFileOf(i, v) ==
    [FileOf(i, TRUE) EXCEPT
        !.mime_type   = IF v >= 1 THEN @ ELSE None,
        !.hash_md5    = IF v >= 1 THEN @ ELSE None,
        !.hash_sha256 = IF v >= 2 THEN @ ELSE None]

WireFileList(v, n) ==
    [_version |-> v, _size |-> 0, _count |-> n,
     entries |-> [i \in 1..n |-> WireFileOf(i, v)]]

FieldKey(i) == <<74 + i>>

FieldsOf(n) ==
    [_size |-> 0, _version |-> 0,
     fields |-> [k \in {FieldKey(i) : i \in 1..n} |-> <<86, k[1]>>]]

ManifestOf(header, m, cl, fl, cf) ==
    [header |-> header, meta |-> m, chunk_list |-> cl, file_list |-> fl,
     custom_fields |-> cf, data |-> <<>>]

(* ------------------------------- inputs -------------------------------- *)

\* the builds a run is checked under: with or without integer overflow checks
\* (debug and release profiles), and what a read behind a buffer meets: a
\* filler byte, or a fault (-1)
Builds ==
    {[overflow_checks |-> TRUE,  heap |-> 0],
     [overflow_checks |-> FALSE, heap |-> 65],
     [overflow_checks |-> FALSE, heap |-> -1]}

\* manifest values handed to FManifest::serialize without having been parsed
SourceManifests ==
    {ManifestOf(h, m, ChunkListOf(c), fl, FieldsOf(k)) :
        h  \in {HeaderOf(MANIFEST_MAGIC, "None"), HeaderOf(MANIFEST_MAGIC, "Compressed"),
                HeaderOf(MANIFEST_MAGIC, "Encrypted"), HeaderOf(0, "None")},
        m  \in {WireMeta(v) : v \in 0..2},
        c  \in 0..MaxChunks,
        fl \in {FileListOf(v, n, opt) : v \in 0..2, n \in 1..MaxFiles, opt \in BOOLEAN}
               \cup {FileListOf(0, 0, FALSE)},
        k  \in 0..MaxFields}

\* a well-formed stream as a producer emits it: the sections, Meta at data
\* version mv, behind a header that states their size and hash
WirePayload(mv, c, fl, k) ==
    Concat(<<meta_write(WireMeta(mv), mv),
             chunk_list_write(ChunkListOf(c)),
             file_list_write(fl),
             custom_fields_write(FieldsOf(k), [i \in 1..k |-> FieldKey(i)])>>)

Seal(stored_as, payload) ==
    write_with_data(
        [magic |-> MANIFEST_MAGIC, header_size |-> 0,
         data_size_uncompressed |-> Len(payload),
         data_size_compressed |-> Len(final_data(stored_as, payload)),
         sha_hash |-> Sha1(payload), stored_as |-> stored_as,
         version |-> "UsesBuildTimeGeneratedBuildId"],
        final_data(stored_as, payload))

WirePayloads ==
    {WirePayload(mv, c, fl, k) :
        mv \in 0..2, c \in 0..MaxChunks,
        fl \in {WireFileList(v, n) : v \in 0..2, n \in 1..MaxFiles}
               \cup {WireFileList(0, 0)},
        k \in 0..MaxFields}

\* s with the bytes from 0-based offset off on replaced by new
Patch(s, off, new) == Take(s, off) \o new \o Drop(s, off + Len(new))

\* the 0-based offset of the first occurrence of needle in s, -1 if none
Find(s, needle) ==
    LET hits == {i \in 0..(Len(s) - Len(needle)) :
                    SubSeq(s, i + 1, i + Len(needle)) = needle}
    IN  IF hits = {} THEN -1 ELSE CHOOSE i \in hits : \A j \in hits : i <= j

\* s with the first occurrence of old replaced by new, s itself if there is none
Swap(s, old, new) ==
    IF Find(s, old) < 0 THEN s
    ELSE Take(s, Find(s, old)) \o new \o Drop(s, Find(s, old) + Len(old))

\* the payload the damaged streams are made from: Meta and file list at data
\* version mv, every list with one entry
RichPayload(mv) == WirePayload(mv, 1, WireFileList(mv, 1), 1)

\* the 0-based offsets of the four sections in a payload
SectionOffsets(payload) ==
    LET m == FromLE(SubSeq(payload, 1, 4))
        c == FromLE(SubSeq(payload, m + 1, m + 4))
        f == FromLE(SubSeq(payload, m + c + 1, m + c + 4))
    IN  <<0, m, m + c, m + c + f>>

\* payloads damaged before the header is computed: the header states the size
\* and the hash of the damaged payload
DamagedPayloads(mv) ==
    LET p   == RichPayload(mv)
        off == SectionOffsets(p)
        part == FileOf(1, TRUE).chunk_parts[1]
    IN  \* a declared section size one more or one less than the section
        {Patch(p, off[i], LE(FromLE(SubSeq(p, off[i] + 1, off[i] + 4)) + d, 4)) :
            i \in 1..4, d \in {-1, 1}}
        \* a declared ChunkPart size one more or one less than the part
        \cup {Swap(p, chunk_part_write(part),
                   Patch(chunk_part_write(part), 0,
                         LE(Len(chunk_part_write(part)) + d, 4))) : d \in {-1, 1}}
        \* an optional string without its NUL terminator: build_id, MIME type
        \cup {Swap(p, write_string(<<66>>), SLE(2, 4) \o <<66, 1>>),
              Swap(p, write_string(<<109>>), SLE(2, 4) \o <<109, 1>>)}
        \* an optional string whose length prefix runs past the end of its section
        \cup {Swap(p, write_string(<<66>>), SLE(127, 4) \o <<66, 0>>)}
        \* a UTF-16 string (negative length prefix): build_id, build_version
        \cup {Swap(p, write_string(<<66>>), SLE(-1, 4) \o <<66, 0>>),
              Swap(p, write_string(<<49>>), SLE(-1, 4) \o <<49, 0>>)}
        \* a mandatory string that is not UTF-8
        \cup {Swap(p, write_string(<<49>>), SLE(2, 4) \o <<255, 0>>)}
        \* a byte after the last section
        \cup {p \o <<0>>}
        \* a negative pair count in the custom fields
        \cup {Patch(p, off[4] + 5, SLE(-1, 4))}

\* streams damaged after the header was computed
DamagedStreams(stored_as) ==
    LET s == Seal(stored_as, RichPayload(2))
    IN  \* another magic, another header size
        {Patch(s, 0, <<13>>), Patch(s, 4, <<40>>), Patch(s, 4, <<42>>)}
        \* a stored hash that is not the hash of the payload
        \cup {Patch(s, 16, <<(s[17] + 1) % 256>>)}
        \* a storage byte that is Encrypted or no flag at all
        \cup {Patch(s, 36, <<2>>), Patch(s, 36, <<3>>)}
        \* a feature level no label has
        \cup {Patch(s, 37, SLE(100, 4))}
        \* an uncompressed size that is one off, with the right and a wrong hash
        \cup {Patch(s, 8, LE(FromLE(SubSeq(s, 9, 12)) + 1, 4)),
              Patch(Patch(s, 8, LE(FromLE(SubSeq(s, 9, 12)) + 1, 4)),
                    16, <<(s[17] + 1) % 256>>)}
        \* a damaged, a truncated and an overlong body
        \cup {Patch(s, Len(s) - 1, <<(s[Len(s)] + 1) % 256>>),
              Take(s, Len(s) - 1), s \o <<0>>}
        \* a stream that ends inside the header or inside the magic
        \cup {Take(s, 40), Take(s, 37), Take(s, 3)}

\* a chunk list of three chunks: the first has the GUID of the second in all
\* limbs but d, the third has the GUID of the second and other attributes
TwinChunks ==
    [ChunkListOf(3) EXCEPT !.chunks[1].guid = [Guid(1) EXCEPT !.d = 5],
                           !.chunks[2].guid = Guid(1),
                           !.chunks[3].guid = Guid(1)]

\* a well-formed stream with that chunk list
TwinStream ==
    Seal("None", Concat(<<meta_write(WireMeta(2), 2), chunk_list_write(TwinChunks),
                          file_list_write(WireFileList(2, 1)),
                          custom_fields_write(FieldsOf(2),
                                              <<FieldKey(1), FieldKey(2)>>)>>))

\* a CustomFields section that declares two pairs with the same key
TwinKeys ==
    LET body == LE(0, 1) \o SLE(2, 4)
                \o write_string(FieldKey(1)) \o write_string(<<86>>)
                \o write_string(FieldKey(1)) \o write_string(<<87>>)
    IN  LE(Len(body) + 4, 4) \o body

\* a stream that ends with that section
TwinKeyStream ==
    Seal("None", Take(RichPayload(2), SectionOffsets(RichPayload(2))[4]) \o TwinKeys)

\* the byte streams handed to FManifestParser::new
Streams ==
    {Seal(st, p) : st \in {"None", "Compressed"}, p \in WirePayloads}
    \cup {TwinStream, TwinKeyStream}
    \cup {Seal(st, p) : st \in {"None", "Compressed"},
                        p \in UNION {DamagedPayloads(mv) : mv \in 0..2}}
    \cup UNION {DamagedStreams(st) : st \in {"None", "Compressed"}}

(* ---------------------------- state machine ---------------------------- *)

\* what the variables of a parse hold before its stages have run
NoHeader == HeaderOf(0, "None")

NoMeta == MetaOf(None, None, None)

NoManifest == ManifestOf(NoHeader, NoMeta, ChunkListOf(0), FileListOf(0, 0, FALSE),
                         FieldsOf(0))

\* no call has been made on the reader yet
NoCall == [op |-> "new", arg |-> 0, at |-> 0, r |-> Ok(0, <<>>), written |-> <<>>]

\* ByteReader::new
NewReader(data) == [data |-> data, position |-> 0]

Init ==
    /\ build \in Builds
    /\ \/ /\ mode = "serialize"
          /\ pc = "serialize"
          /\ man \in SourceManifests
          /\ input = <<>>
       \/ /\ mode = "parse"
          /\ pc = "header"
          /\ man = NoManifest
          /\ input \in Streams
    /\ round = 0
    /\ src = NoManifest
    /\ reader = NewReader(<<>>)
    /\ hdr = NoHeader
    /\ meta = NoMeta
    /\ chunk_list = ChunkListOf(0)
    /\ file_list = FileListOf(0, 0, FALSE)
    /\ custom_fields = FieldsOf(0)
    /\ result = "running"
    /\ failed_at = ""
    /\ swallowed = FALSE
    /\ stages = <<>>
    /\ call = NoCall

\* the record of one stage in stages
Stage(stage, start, end) == [stage |-> stage, start |-> start, end |-> end]

\* the end of a parse stage that returned Err or panicked
Fail(stage, start, r) ==
    /\ result' = r.err
    /\ failed_at' = stage
    /\ pc' = "failed"
    /\ stages' = Append(stages, Stage(stage, start, r.pos))

\* FManifest::serialize applied to man; the bytes are then given to
\* FManifestParser::new
Serialize ==
    /\ pc \in {"serialize", "parsed"}
    /\ round < MaxRounds
    /\ \E order \in Orders(DOMAIN man.custom_fields.fields) :
         \E bytes \in {serialize(man, order)} :
             IF Panicked(bytes)
             THEN /\ pc' = "failed"
                  /\ result' = "panic"
                  /\ failed_at' = "serialize"
                  /\ input' = <<>>
             ELSE /\ pc' = "header"
                  /\ result' = "running"
                  /\ failed_at' = ""
                  /\ input' = bytes
    /\ round' = round + 1
    /\ src' = man
    /\ reader' = NewReader(<<>>)
    /\ hdr' = NoHeader
    /\ meta' = NoMeta
    /\ chunk_list' = ChunkListOf(0)
    /\ file_list' = FileListOf(0, 0, FALSE)
    /\ custom_fields' = FieldsOf(0)
    /\ swallowed' = FALSE
    /\ stages' = <<>>
    /\ call' = NoCall
    /\ UNCHANGED <<build, mode, man>>

\* FManifestParser::parse, line 38: FManifestHeader::parse
ParseHeader ==
    /\ pc = "header"
    /\ \E r \in {header_parse(input)} :
           IF r.err # ""
           THEN /\ Fail("header", 0, r)
                /\ UNCHANGED <<hdr, reader>>
           ELSE /\ hdr' = r.val.header
                /\ reader' = NewReader(r.val.data)
                /\ pc' = "meta"
                /\ stages' = Append(stages, Stage("header", 0, r.pos))
                /\ UNCHANGED <<result, failed_at>>
    /\ UNCHANGED <<call, build, mode, round, src, man, input, meta, chunk_list, file_list,
                   custom_fields, swallowed>>

\* FManifestParser::parse, line 40: FManifestMeta::parse
ParseMeta ==
    /\ pc = "meta"
    /\ \E r \in {meta_parse(reader.data, reader.position)} :
           /\ reader' = [reader EXCEPT !.position = r.pos]
           /\ swallowed' = (swallowed \/ r.lost)
           /\ IF r.err # ""
              THEN /\ Fail("meta", reader.position, r)
                   /\ UNCHANGED meta
              ELSE /\ meta' = r.val
                   /\ pc' = "chunk_list"
                   /\ stages' = Append(stages, Stage("meta", reader.position, r.pos))
                   /\ UNCHANGED <<result, failed_at>>
    /\ UNCHANGED <<call, build, mode, round, src, man, input, hdr, chunk_list, file_list,
                   custom_fields>>

\* FManifestParser::parse, line 41: FChunkList::parse
ParseChunkList ==
    /\ pc = "chunk_list"
    /\ \E r \in {chunk_list_parse(reader.data, reader.position, hdr.version)} :
           /\ reader' = [reader EXCEPT !.position = r.pos]
           /\ IF r.err # ""
              THEN /\ Fail("chunk_list", reader.position, r)
                   /\ UNCHANGED chunk_list
              ELSE /\ chunk_list' = r.val
                   /\ pc' = "file_list"
                   /\ stages' = Append(stages, Stage("chunk_list", reader.position, r.pos))
                   /\ UNCHANGED <<result, failed_at>>
    /\ UNCHANGED <<call, build, mode, round, src, man, input, hdr, meta, file_list,
                   custom_fields, swallowed>>

\* FManifestParser::parse, line 42: FFileManifestList::parse
ParseFileList ==
    /\ pc = "file_list"
    /\ \E r \in {file_list_parse(reader.data, reader.position)} :
           /\ reader' = [reader EXCEPT !.position = r.pos]
           /\ swallowed' = (swallowed \/ r.lost)
           /\ IF r.err # ""
              THEN /\ Fail("file_list", reader.position, r)
                   /\ UNCHANGED file_list
              ELSE /\ file_list' = r.val
                   /\ pc' = "custom_fields"
                   /\ stages' = Append(stages, Stage("file_list", reader.position, r.pos))
                   /\ UNCHANGED <<result, failed_at>>
    /\ UNCHANGED <<call, build, mode, round, src, man, input, hdr, meta, chunk_list,
                   custom_fields>>

\* FManifestParser::parse, lines 43-52: FCustomFields::parse, then Ok(FManifest)
ParseCustomFields ==
    /\ pc = "custom_fields"
    /\ \E r \in {custom_fields_parse(reader.data, reader.position)} :
           /\ reader' = [reader EXCEPT !.position = r.pos]
           /\ IF r.err # ""
              THEN /\ Fail("custom_fields", reader.position, r)
                   /\ UNCHANGED <<custom_fields, man>>
              ELSE /\ custom_fields' = r.val
                   /\ man' = [header |-> hdr, meta |-> meta, chunk_list |-> chunk_list,
                              file_list |-> file_list, custom_fields |-> r.val,
                              data |-> input]
                   /\ pc' = "parsed"
                   /\ result' = "ok"
                   /\ stages' = Append(stages, Stage("custom_fields", reader.position, r.pos))
                   /\ UNCHANGED failed_at
    /\ UNCHANGED <<call, build, mode, round, src, input, hdr, meta, chunk_list, file_list,
                   swallowed>>

\* the GUIDs the chunk parts of a manifest refer to
PartGuids(m) ==
    {m.file_list.entries[i].chunk_parts[j].guid :
        i \in DOMAIN m.file_list.entries, j \in 1..2}

\* FChunkList::find_by_guid on the chunk list of the manifest parse returned,
\* for the GUID of one of its chunk parts
FindByGuid ==
    /\ pc = "parsed"
    /\ \E guid \in PartGuids(man) :
          call' = [op |-> "find_by_guid", arg |-> guid, at |-> 0,
                   r |-> Ok(0, find_by_guid(man.chunk_list, guid)), written |-> <<>>]
    /\ UNCHANGED <<pc, build, mode, round, src, man, input, reader, hdr, meta,
                   chunk_list, file_list, custom_fields, result, failed_at, swallowed,
                   stages>>

Next ==
    \/ FindByGuid
    \/ Serialize
    \/ ParseHeader
    \/ ParseMeta
    \/ ParseChunkList
    \/ ParseFileList
    \/ ParseCustomFields

Spec == Init /\ [][Next]_vars

(* ------------------------- a ByteReader on its own --------------------- *)

\* the byte buffers a ByteReader is made over: strings with a positive, zero
\* and negative length prefix, well formed and not, and feature levels
ReaderBuffers ==
    {\* "h\u00e9" and the empty string, then a string cut short
     SLE(4, 4) \o <<104, 195, 169, 0>> \o SLE(0, 4) \o SLE(3, 4) \o <<65>>,
     \* no NUL at the end; a NUL in the middle; bytes that are not UTF-8
     SLE(2, 4) \o <<65, 66>> \o SLE(3, 4) \o <<65, 0, 0>> \o SLE(2, 4) \o <<255, 0>>,
     \* UTF-16 "h" with its terminator, then a lone UTF-16 terminator
     SLE(-2, 4) \o <<104, 0, 0, 0>> \o SLE(-1, 4) \o <<0, 0>>,
     \* the smallest i32 as a length, then a length below -(2^30 - 1)
     <<0, 0, 0, 128>> \o SLE(-1073741824, 4) \o <<65, 0>>,
     \* "h\u00e9llo.txt"
     SLE(11, 4) \o <<104, 195, 169, 108, 108, 111, 46, 116, 120, 116, 0>>,
     \* a negative i64, then two bytes
     SLE(-2, 8) \o <<1, 2>>,
     \* feature levels
     SLE(18, 4) \o SLE(19, 4) \o SLE(20, 4) \o SLE(24, 4) \o SLE(25, 4),
     SLE(255, 4) \o SLE(-1, 4) \o SLE(21, 4) \o SLE(-2, 4),
     <<>>}

\* the sizes read_bytes is called with
ReadSizes == {0, 1, 3}

\* the integer types with a ByteReadable implementation, and their widths
IntegerKinds == {"u8", "u16", "u32", "u64", "i8", "i16", "i32", "i64"}

Width(kind) ==
    CASE kind \in {"u8", "i8"} -> 1
      [] kind \in {"u16", "i16"} -> 2
      [] kind \in {"u32", "i32"} -> 4
      [] kind \in {"u64", "i64"} -> 8

Signed(kind) == kind \in {"i8", "i16", "i32", "i64"}

\* the value of bytes, read as kind, is one the integers of the model hold
\* (31 bits and a sign)
Representable(kind, bytes) ==
    IF Len(bytes) < 4 THEN TRUE
    ELSE IF bytes[4] < 128 THEN \A i \in 5..Len(bytes) : bytes[i] = 0
    ELSE Signed(kind) /\ \A i \in 5..Len(bytes) : bytes[i] = 255

\* the cursors seek is called with: inside the data, at its end, behind it,
\* and usize::MAX - 3 and usize::MAX (see read_bytes)
SeekTargets(data) == 0..(Len(data) + 1) \cup {-4, -1}

ReaderInit ==
    /\ build \in Builds
    /\ mode = "reader"
    /\ pc = "reader"
    /\ reader \in {NewReader(data) : data \in ReaderBuffers}
    /\ call = NoCall
    /\ round = 0
    /\ src = NoManifest
    /\ man = NoManifest
    /\ input = <<>>
    /\ hdr = NoHeader
    /\ meta = NoMeta
    /\ chunk_list = ChunkListOf(0)
    /\ file_list = FileListOf(0, 0, FALSE)
    /\ custom_fields = FieldsOf(0)
    /\ result = "running"
    /\ failed_at = ""
    /\ swallowed = FALSE
    /\ stages = <<>>

\* the end of a call on the reader: what it returned is kept in call, the
\* cursor is where the call left it, a panic ends the run
Return(op, arg, r, written) ==
    /\ call' = [op |-> op, arg |-> arg, at |-> reader.position, r |-> r,
                written |-> written]
    /\ reader' = [reader EXCEPT !.position = r.pos]
    /\ pc' = IF r.err = "panic" THEN "aborted" ELSE "reader"
    /\ UNCHANGED <<build, mode, round, src, man, input, hdr, meta, chunk_list,
                   file_list, custom_fields, result, failed_at, swallowed, stages>>

\* ByteReader::read_bytes
ReadBytes ==
    /\ pc = "reader"
    /\ \E size \in ReadSizes :
          Return("read_bytes", size, read_bytes(reader.data, reader.position, size),
                 <<>>)

\* ByteReader::read::<T>() for an integer type T
ReadInteger ==
    /\ pc = "reader"
    /\ \E kind \in IntegerKinds :
          /\ IF reader.position >= 0 /\ reader.position + Width(kind) <= Len(reader.data)
             THEN Representable(kind, SubSeq(reader.data, reader.position + 1,
                                             reader.position + Width(kind)))
             ELSE TRUE
          /\ Return(kind, Width(kind), read(kind, reader.data, reader.position), <<>>)

\* ByteReader::read::<String>()
ReadString ==
    /\ pc = "reader"
    /\ Return("String", 0, read_string(reader.data, reader.position), <<>>)

\* the string writer applied to the string the reader has just returned, and
\* the reader applied to the bytes written
write_back(s) ==
    IF Panicked(write_string(s)) THEN Err("panic", 0)
    ELSE read_string(write_string(s), 0)

\* ByteWriter::write::<String>() of the string last read, into a new writer,
\* and ByteReader::read::<String>() over the bytes written
WriteString ==
    /\ pc = "reader"
    /\ call.op = "String"
    /\ call.r.err = ""
    /\ call' = [op |-> "write", arg |-> call.r.val, at |-> 0,
                r |-> write_back(call.r.val), written |-> write_string(call.r.val)]
    /\ pc' = IF Panicked(write_string(call.r.val)) THEN "aborted" ELSE "reader"
    /\ UNCHANGED <<build, mode, round, src, man, input, reader, hdr, meta, chunk_list,
                   file_list, custom_fields, result, failed_at, swallowed, stages>>

\* `EFeatureLevel::from_i32(reader.read()?).ok_or(ParseError::InvalidData)?`
read_feature_level(data, pos) ==
    Try(read_int(data, pos, 4), LAMBDA value :
        IF from_i32(value.val) = <<>> THEN Err("InvalidData", value.pos)
        ELSE Ok(value.pos, from_i32(value.val)[1]))

\* a feature level is read as the header and Meta read it, and written back as
\* they write it
ReadLevel ==
    /\ pc = "reader"
    /\ \E r \in {read_feature_level(reader.data, reader.position)} :
          Return("EFeatureLevel", 0, r,
                 IF r.err = "" THEN write_feature_level(r.val) ELSE <<>>)

\* ByteReader::seek
Seek ==
    /\ pc = "reader"
    /\ \E position \in SeekTargets(reader.data) :
          Return("seek", position, Ok(position, <<>>), <<>>)

\* ByteReader::tell
Tell ==
    /\ pc = "reader"
    /\ Return("tell", 0, Ok(reader.position, reader.position), <<>>)

\* ByteReader::read_remaining: the slice self.data[self.position..] panics when
\* the cursor is behind the end of the data
read_remaining(data, pos) ==
    IF pos < 0 \/ pos > Len(data) THEN Err("panic", pos)
    ELSE Ok(Len(data), Drop(data, pos))

ReadRemaining ==
    /\ pc = "reader"
    /\ Return("read_remaining", 0, read_remaining(reader.data, reader.position), <<>>)

ReaderNext ==
    \/ ReadBytes
    \/ ReadInteger
    \/ ReadString
    \/ WriteString
    \/ ReadLevel
    \/ Seek
    \/ Tell
    \/ ReadRemaining

ReaderSpec == ReaderInit /\ [][ReaderNext]_vars

\* the calls of a reader that is never sought
SeeklessNext ==
    \/ ReadBytes
    \/ ReadInteger
    \/ Tell

SeeklessSpec == ReaderInit /\ [][SeeklessNext]_vars

(* ------------------- file sizes and offsets at full width -------------- *)

\* Numbers of this section are little-endian byte sequences, so that a u32
\* above 2^31 and a sum above 2^32 are values like any other.

\* chunk parts of one file entry
MaxParts == 3

\* the sizes a chunk part declares: 0, 10, 2^31 - 1, 2^31 and 2^32 - 1
PartSizes ==
    {<<0, 0, 0, 0>>, <<10, 0, 0, 0>>, <<255, 255, 255, 127>>, <<0, 0, 0, 128>>,
     <<255, 255, 255, 255>>}

\* the targets and profiles of a build: usize of 4 bytes (wasm32) or 8, with
\* or without integer overflow checks
TargetBuilds ==
    {[overflow_checks |-> c, heap |-> 0, usize_bytes |-> w] :
        c \in BOOLEAN, w \in {4, 8}}

RECURSIVE AddLE(_, _, _)
\* a + b + carry for two numbers of the same width: the bytes of the sum at
\* that width, then the carry out of it
AddLE(a, b, carry) ==
    IF a = <<>> THEN <<carry>>
    ELSE <<(Head(a) + Head(b) + carry) % 256>>
         \o AddLE(Tail(a), Tail(b), (Head(a) + Head(b) + carry) \div 256)

\* `size as usize`, and any other zero extension to w bytes
Widen(n, w) == n \o Repeat(0, w - Len(n))

\* `a + b` and `a += b` at the width of a: a sum that does not fit panics
\* where overflow checks are on and wraps where they are off
add(a, b) ==
    IF AddLE(a, b, 0)[Len(a) + 1] = 0 THEN Ok(0, Take(AddLE(a, b, 0), Len(a)))
    ELSE IF build.overflow_checks THEN Err("panic", 0)
    ELSE Ok(0, Take(AddLE(a, b, 0), Len(a)))

RECURSIVE part_offsets(_, _)
\* FFileManifestList::parse, lines 43-55, for the parts of one entry:
\* every part gets the running file_offset, which then grows by its size
part_offsets(sizes, file_offset) ==
    IF sizes = <<>> THEN Ok(0, <<>>)
    ELSE Try(add(file_offset, Widen(Head(sizes), Len(file_offset))), LAMBDA next :
             Map(part_offsets(Tail(sizes), next.val),
                 LAMBDA rest : <<[size |-> Head(sizes), file_offset |-> file_offset]>>
                               \o rest))

RECURSIVE sum_u32(_, _)
\* Iterator::sum over u32: the fold of `+` from 0
sum_u32(acc, sizes) ==
    IF sizes = <<>> THEN Ok(0, acc)
    ELSE Try(add(acc, Head(sizes)), LAMBDA next : sum_u32(next.val, Tail(sizes)))

\* the size fields of the parts of the entry, in wire order
SizesOf(bytes) == [i \in 1..(Len(bytes) \div 4) |-> SubSeq(bytes, 4 * i - 3, 4 * i)]

FileSizeInit ==
    /\ build \in TargetBuilds
    /\ mode = "file_size"
    /\ pc = "parts"
    /\ input \in {Concat(sizes) :
                    sizes \in UNION {[1..n -> PartSizes] : n \in 0..MaxParts}}
    /\ reader = NewReader(<<>>)
    /\ call = NoCall
    /\ round = 0
    /\ src = NoManifest
    /\ man = NoManifest
    /\ hdr = NoHeader
    /\ meta = NoMeta
    /\ chunk_list = ChunkListOf(0)
    /\ file_list = FileListOf(0, 0, FALSE)
    /\ custom_fields = FieldsOf(0)
    /\ result = "running"
    /\ failed_at = ""
    /\ swallowed = FALSE
    /\ stages = <<>>

\* FFileManifestList::parse, lines 43-55: the chunk parts of the entry
ParseParts ==
    /\ pc = "parts"
    /\ \E r \in {part_offsets(SizesOf(input), Repeat(0, build.usize_bytes))} :
          IF r.err # ""
          THEN /\ pc' = "failed"
               /\ result' = r.err
               /\ failed_at' = "parts"
               /\ UNCHANGED file_list
          ELSE /\ pc' = "file_size"
               /\ file_list' = [file_list EXCEPT
                                  !._count = 1,
                                  !.entries = <<[chunk_parts |-> r.val,
                                                 file_size |-> Repeat(0, 4)]>>]
               /\ UNCHANGED <<result, failed_at>>
    /\ UNCHANGED <<call, build, mode, round, src, man, input, reader, hdr, meta,
                   chunk_list, custom_fields, swallowed, stages>>

\* FFileManifestList::parse, lines 75-77: the file size of the entry
SumFileSize ==
    /\ pc = "file_size"
    /\ \E r \in {sum_u32(Repeat(0, 4),
                         [i \in DOMAIN file_list.entries[1].chunk_parts |->
                             file_list.entries[1].chunk_parts[i].size])} :
          IF r.err # ""
          THEN /\ pc' = "failed"
               /\ result' = r.err
               /\ failed_at' = "file_size"
               /\ UNCHANGED file_list
          ELSE /\ pc' = "parsed"
               /\ result' = "ok"
               /\ file_list' = [file_list EXCEPT !.entries[1].file_size = r.val]
               /\ UNCHANGED failed_at
    /\ UNCHANGED <<call, build, mode, round, src, man, input, reader, hdr, meta,
                   chunk_list, custom_fields, swallowed, stages>>

FileSizeNext ==
    \/ ParseParts
    \/ SumFileSize

FileSizeSpec == FileSizeInit /\ [][FileSizeNext]_vars

(* ------------------------ the flags of a file entry -------------------- *)

\* `flags & mask` for a mask of one bit
BitAnd(flags, mask) == ((flags \div mask) % 2) * mask

\* FFileManifest::read_only
read_only(flags) == BitAnd(flags, 1) = 1

\* FFileManifest::compressed
compressed(flags) == BitAnd(flags, 2) = 1

\* FFileManifest::executable
executable(flags) == BitAnd(flags, 4) = 1

\* a file entry with every value a flags byte takes
FlagsInit ==
    /\ build \in Builds
    /\ mode = "flags"
    /\ pc = "parsed"
    /\ file_list \in {[FileListOf(0, 1, FALSE) EXCEPT !.entries[1].flags = f] :
                        f \in 0..255}
    /\ input = <<>>
    /\ reader = NewReader(<<>>)
    /\ call = NoCall
    /\ round = 0
    /\ src = NoManifest
    /\ man = NoManifest
    /\ hdr = NoHeader
    /\ meta = NoMeta
    /\ chunk_list = ChunkListOf(0)
    /\ custom_fields = FieldsOf(0)
    /\ result = "ok"
    /\ failed_at = ""
    /\ swallowed = FALSE
    /\ stages = <<>>

\* the return of an accessor of the entry
Accessed(op, value) ==
    /\ call' = [op |-> op, arg |-> file_list.entries[1].flags, at |-> 0,
                r |-> Ok(0, value), written |-> <<>>]
    /\ UNCHANGED <<pc, build, mode, round, src, man, input, reader, hdr, meta,
                   chunk_list, file_list, custom_fields, result, failed_at, swallowed,
                   stages>>

ReadOnly ==
    /\ pc = "parsed"
    /\ Accessed("read_only", read_only(file_list.entries[1].flags))

Compressed ==
    /\ pc = "parsed"
    /\ Accessed("compressed", compressed(file_list.entries[1].flags))

Executable ==
    /\ pc = "parsed"
    /\ Accessed("executable", executable(file_list.entries[1].flags))

FlagsNext ==
    \/ ReadOnly
    \/ Compressed
    \/ Executable

FlagsSpec == FlagsInit /\ [][FlagsNext]_vars

(* ------------------------------ properties ---------------------------- *)

\* the length of the header FManifestHeader::write_with_data emits
HeaderLength == Len(write_with_data(NoHeader, <<>>))

\* the running parse has been through FManifestHeader::parse
HeaderDone == stages # <<>>

\* input holds what FManifest::serialize made of src
Serialized == round >= 1 /\ failed_at # "serialize"

HasHeader == Len(input) >= HeaderLength

CorrectMagic == Len(input) >= 4 /\ SubSeq(input, 1, 4) = LE(MANIFEST_MAGIC, 4)

\* the fields of the header as the bytes of input declare them
HeaderSize == FromLE(SubSeq(input, 5, 8))

DeclaredUncompressed == FromLE(SubSeq(input, 9, 12))

StoredHash == SubSeq(input, 17, 36)

StorageByte == input[37]

ValidLevel == from_i32(FromSLE(SubSeq(input, 38, 41))) # <<>>

WellFormedHeader ==
    /\ HasHeader
    /\ CorrectMagic
    /\ HeaderSize = HeaderLength
    /\ StorageByte \in {0, 1}
    /\ ValidLevel

\* the bytes after the header, and the uncompressed payload they stand for
Body == Drop(input, HeaderLength)

Inflates == Inflate(Body).ok /\ Len(Inflate(Body).data) = DeclaredUncompressed

Payload == IF StorageByte = 1 THEN Inflate(Body).data ELSE Body

\* the semantic content of two manifests is the same: Meta, chunk entries,
\* file entries and the custom-field mapping
SameContent(a, b) ==
    /\ a.meta = b.meta
    /\ a.chunk_list.chunks = b.chunk_list.chunks
    /\ a.file_list.entries = b.file_list.entries
    /\ DOMAIN a.custom_fields.fields = DOMAIN b.custom_fields.fields
    /\ \A k \in DOMAIN a.custom_fields.fields :
          a.custom_fields.fields[k] = b.custom_fields.fields[k]

\* C1: for every manifest m stored Plain or Compressed, parse(serialize(m))
\* succeeds and yields the semantic content of m.
C1_RoundTrip ==
    (Serialized /\ src.header.stored_as \in {"None", "Compressed"}
       /\ pc \in {"parsed", "failed"})
    => (result = "ok" /\ SameContent(man, src))

\* C1: a manifest without a build id comes back from the round trip with the
\* empty string as its build id
C1_AbsentComesBackEmpty ==
    /\ Serialized
    /\ pc = "parsed"
    /\ src.header.magic = MANIFEST_MAGIC
    /\ src.meta.build_id = None
    /\ man.meta.build_id = Some(<<>>)

\* C2: the bytes serialize produces begin with 0C C0 BE 44, declare header_size
\* 41, declare the length of the uncompressed payload (the sum of the four
\* section sizes) and carry the SHA-1 of that payload.
C2_SerializedHeader ==
    (Serialized /\ stages = <<>>)
    => /\ SubSeq(input, 1, 4) = <<12, 192, 190, 68>>
       /\ HeaderSize = 41
       /\ DeclaredUncompressed = Len(Payload)
       /\ DeclaredUncompressed = SectionOffsets(Payload)[4]
             + FromLE(SubSeq(Payload, SectionOffsets(Payload)[4] + 1,
                             SectionOffsets(Payload)[4] + 4))
       /\ StoredHash = Sha1(Payload)

\* C2: a manifest whose header holds another magic is serialized with that magic
C2_StoredMagicEmitted ==
    /\ Serialized
    /\ stages = <<>>
    /\ src.header.magic # MANIFEST_MAGIC
    /\ SubSeq(input, 1, 4) = LE(src.header.magic, 4)
    /\ SubSeq(input, 1, 4) # <<12, 192, 190, 68>>

\* C3: with a well-formed header, a stored SHA-1 that differs from the SHA-1 of
\* the uncompressed payload makes parse fail with HashMismatch; every parsed
\* manifest has header.sha_hash = SHA1(uncompressed payload).
C3_HashMismatch ==
    /\ (WellFormedHeader /\ HeaderDone /\ (StorageByte = 1 => Inflates)
          /\ StoredHash # Sha1(Payload))
       => (pc = "failed" /\ result = "HashMismatch")
    /\ (pc = "parsed" => man.header.sha_hash = Sha1(reader.data))

\* C3: a Plain stream whose stored SHA-1 is not that of its payload is parsed
C3_PlainHashUnchecked ==
    /\ pc = "parsed"
    /\ StorageByte = 0
    /\ man.header.sha_hash # Sha1(reader.data)

\* C4: with a correct magic and a full header, a storage byte of 2 or outside
\* {0, 1, 2} makes parse fail with InvalidStorageFlag.
C4_InvalidStorageFlag ==
    (HasHeader /\ CorrectMagic /\ StorageByte \notin {0, 1} /\ HeaderDone)
    => (pc = "failed" /\ result = "InvalidStorageFlag")

\* C4: a stream declared Encrypted is parsed, its payload read as plain data
C4_EncryptedReadAsPlain ==
    /\ pc = "parsed"
    /\ StorageByte = 2
    /\ reader.data = Body

\* C5: an input of at least 4 bytes whose first four bytes are not the magic
\* fails with InvalidMagic, whatever its later bytes are.
C5_InvalidMagic ==
    (Len(input) >= 4 /\ ~CorrectMagic /\ HeaderDone)
    => (pc = "failed" /\ result = "InvalidMagic" /\ failed_at = "header")

\* C5: a whole stream with another magic has been rejected
C5_WrongMagicRejected ==
    /\ Len(input) > HeaderLength
    /\ ~CorrectMagic
    /\ result = "InvalidMagic"

\* C6: with a correct magic, a valid storage byte and a valid feature level, a
\* declared header_size other than the cursor after the header fields makes
\* parse fail with OffsetMismatch, the cursor still at the end of the header.
C6_OffsetMismatch ==
    (HasHeader /\ CorrectMagic /\ StorageByte \in {0, 1} /\ ValidLevel
       /\ HeaderSize # HeaderLength /\ HeaderDone)
    => /\ pc = "failed"
       /\ result = "OffsetMismatch"
       /\ stages[1].end = HeaderLength

\* C6: a stream with a payload and another declared header size has been
\* rejected
C6_WrongHeaderSizeRejected ==
    /\ Len(input) > HeaderLength
    /\ HeaderSize # HeaderLength
    /\ result = "OffsetMismatch"

\* C7: with a well-formed header and storage Compressed, a body that does not
\* inflate, or inflates to another length than data_size_uncompressed, makes
\* parse fail with DecompressionError, also when the hash is wrong as well.
C7_DecompressionError ==
    (WellFormedHeader /\ StorageByte = 1 /\ HeaderDone /\ ~Inflates)
    => (pc = "failed" /\ result = "DecompressionError" /\ failed_at = "header")

\* C7: a body of the wrong inflated length and the wrong hash has been rejected
\* for its length
C7_LengthBeforeHash ==
    /\ WellFormedHeader
    /\ StorageByte = 1
    /\ Inflate(Body).ok
    /\ Len(Inflate(Body).data) # DeclaredUncompressed
    /\ StoredHash # Sha1(Inflate(Body).data)
    /\ result = "DecompressionError"

\* C8: parse is total: whatever bytes it is given, it returns a manifest or a
\* ParseError and never aborts.
C8_ParseTotal == failed_at # "serialize" => result # "panic"

\* C8: a stream with a correct magic and the storage byte 3 has made parse abort
C8_UnknownStorageByteAborts ==
    /\ HasHeader
    /\ CorrectMagic
    /\ StorageByte > 2
    /\ failed_at = "header"
    /\ result = "panic"

\* C9: a failed primitive read in a section makes the whole parse return an
\* error: none is turned into an absent value while parsing goes on.
C9_ReadFailureFails == swallowed => pc = "failed"

\* C9: a parse has returned a manifest although a read of one of its optional
\* fields had failed
C9_FailureBecameAbsent ==
    /\ pc = "parsed"
    /\ result = "ok"
    /\ swallowed

\* the stages of a parse that read a framed section
Sections == {"meta", "chunk_list", "file_list", "custom_fields"}

\* the parser of a section
section_parse(stage, data, pos) ==
    IF stage = "meta" THEN meta_parse(data, pos)
    ELSE IF stage = "chunk_list" THEN chunk_list_parse(data, pos, hdr.version)
    ELSE IF stage = "file_list" THEN file_list_parse(data, pos)
    ELSE custom_fields_parse(data, pos)

\* stage i of the running parse returned Ok
Succeeded(i) == i < Len(stages) \/ pc # "failed"

\* the size the section read in stage s declares, and the bytes the stage consumed
DeclaredSize(s) == FromLE(SubSeq(reader.data, s.start + 1, s.start + 4))

Consumed(s) == s.end - s.start

\* stage s read its section to the end: with the consumed length as its
\* declared size the section parses, up to the same cursor
FullyRead(s) ==
    /\ Consumed(s) >= 4
    /\ section_parse(s.stage, Patch(reader.data, s.start, LE(Consumed(s), 4)),
                     s.start).err = ""

\* the length of a ChunkPart on the wire
ChunkPartLength == Len(chunk_part_write(FileOf(1, TRUE).chunk_parts[1]))

\* a ChunkPart of the files of the inputs lies at the 0-based offset q of the
\* payload, whatever size it declares
ChunkPartAt(q) ==
    /\ q + ChunkPartLength <= Len(reader.data)
    /\ \E i \in 1..(MaxFiles + 1), j \in 1..2 :
          SubSeq(reader.data, q + 5, q + ChunkPartLength)
             = chunk_part_write_temp(FileOf(i, TRUE).chunk_parts[j])

\* C10: a framed structure is parsed only if the cursor after it is the cursor
\* at its start plus its declared size; a declared size larger or smaller
\* than the bytes consumed makes parse return SizeMismatch or InvalidData.
C10_FramedSizes ==
    /\ \A i \in DOMAIN stages :
          stages[i].stage \in Sections =>
             /\ Succeeded(i) => stages[i].end = stages[i].start + DeclaredSize(stages[i])
             /\ (FullyRead(stages[i]) /\ DeclaredSize(stages[i]) # Consumed(stages[i]))
                => (pc = "failed" /\ result \in {"SizeMismatch", "InvalidData"})
    /\ \A q \in 0..Len(reader.data) :
          (/\ ChunkPartAt(q)
           /\ FromLE(SubSeq(reader.data, q + 1, q + 4)) # ChunkPartLength
           /\ \E i \in DOMAIN stages :
                 stages[i].stage = "file_list" /\ stages[i].end >= q + ChunkPartLength)
          => (pc = "failed" /\ result \in {"SizeMismatch", "InvalidData"})

\* C10: a Meta that declares one byte less than it holds has made parse abort
C10_SmallMetaSizeAborts ==
    /\ stages # <<>>
    /\ stages[Len(stages)].stage = "meta"
    /\ FullyRead(stages[Len(stages)])
    /\ DeclaredSize(stages[Len(stages)]) < Consumed(stages[Len(stages)])
    /\ result = "panic"

\* section i of a payload, the size fields telling where each section ends
SectionBytes(payload, i) ==
    SubSeq(payload, SectionOffsets(payload)[i] + 1,
           IF i < 4 THEN SectionOffsets(payload)[i + 1] ELSE Len(payload))

\* written is a size field that counts itself and the body behind it
Framed(written, body) ==
    /\ Len(written) = 4 + Len(body)
    /\ FromLE(Take(written, 4)) = Len(written)
    /\ Drop(written, 4) = body

\* the chunk parts of the files of a manifest
PartsOf(m) ==
    UNION {Range(m.file_list.entries[i].chunk_parts) : i \in DOMAIN m.file_list.entries}

\* C11: every section the Meta, ChunkList, FileList, CustomFields and ChunkPart
\* writers emit starts with a u32 size equal to 4 plus the length of the body
\* behind it, and that body is the body of the dry run.
C11_SizeCountsItself ==
    (Serialized /\ stages = <<>>)
    => /\ Framed(SectionBytes(Payload, 1), meta_write_temp(src.meta, 2))
       /\ Framed(SectionBytes(Payload, 2), chunk_list_write_temp(src.chunk_list))
       /\ Framed(SectionBytes(Payload, 3), file_list_write_temp(src.file_list))
       /\ \E order \in Orders(DOMAIN src.custom_fields.fields) :
             Framed(SectionBytes(Payload, 4),
                    custom_fields_write_temp(src.custom_fields, order))
       /\ \A part \in PartsOf(src) :
             /\ Find(SectionBytes(Payload, 3), chunk_part_write(part)) >= 0
             /\ Framed(chunk_part_write(part), chunk_part_write_temp(part))

\* C11: a manifest with a chunk, a file of two parts and a custom field has
\* been written, compressed
C11_RichManifestWritten ==
    /\ Serialized
    /\ stages = <<>>
    /\ src.header.stored_as = "Compressed"
    /\ Len(src.chunk_list.chunks) >= 1
    /\ PartsOf(src) # {}
    /\ DOMAIN src.custom_fields.fields # {}
    /\ FromLE(Take(SectionBytes(Payload, 3), 4)) = Len(SectionBytes(Payload, 3))

\* the data version the Meta section of the parsed payload declares
MetaVersion == reader.data[5]

\* C12: after a successful parse an optional field is None exactly when the
\* data version of its section is below the version that introduced it: Meta
\* build_id below 1, the uninstall fields below 2, a file's MIME type below 1
\* and its SHA-256 below 2.
C12_AbsentIffBelowVersion ==
    pc = "parsed"
    => /\ man.meta.build_id = None <=> MetaVersion < 1
       /\ man.meta.uninstall_action_path = None <=> MetaVersion < 2
       /\ man.meta.uninstall_action_args = None <=> MetaVersion < 2
       /\ \A i \in DOMAIN man.file_list.entries :
             /\ man.file_list.entries[i].mime_type = None
                   <=> man.file_list._version < 1
             /\ man.file_list.entries[i].hash_sha256 = None
                   <=> man.file_list._version < 2

\* C12: a Meta of data version 1 has been parsed to a manifest without build_id
C12_AbsentAtVersionOne ==
    /\ pc = "parsed"
    /\ MetaVersion >= 1
    /\ man.meta.build_id = None

\* the number of file entries of the manifest that was serialized
FileCount == Len(src.file_list.entries)

\* the length of the file list section without its SHA-256 column: the section
\* as it is written at version 1
LengthBeforeSha256 == Len(file_list_write([src.file_list EXCEPT !._version = 1]))

\* C13: for a FileList of version 2 or more, write emits one 32-byte SHA-256
\* per entry after the MD5 and MIME columns, so the section ends with
\* 32 * count hash bytes, and parse of the written section succeeds with the
\* same number of entries.
C13_Sha256PerEntry ==
    (Serialized /\ stages = <<>> /\ src.file_list._version >= 2)
    => /\ Len(SectionBytes(Payload, 3))
             = LengthBeforeSha256 + SHA256_DIGEST_SIZE * FileCount
       /\ \A i \in 1..FileCount :
             src.file_list.entries[i].hash_sha256 # None
             => Take(Drop(SectionBytes(Payload, 3),
                          LengthBeforeSha256 + SHA256_DIGEST_SIZE * (i - 1)),
                     SHA256_DIGEST_SIZE)
                  = src.file_list.entries[i].hash_sha256[1]
       /\ file_list_parse(SectionBytes(Payload, 3), 0).err = ""
       /\ Len(file_list_parse(SectionBytes(Payload, 3), 0).val.entries) = FileCount

\* C13: a FileList of version 2 with an entry without SHA-256 has been written
\* with no hash bytes behind its MIME column
C13_NoBytesForAbsentHash ==
    /\ Serialized
    /\ stages = <<>>
    /\ src.file_list._version >= 2
    /\ FileCount >= 1
    /\ src.file_list.entries[1].hash_sha256 = None
    /\ Len(SectionBytes(Payload, 3)) = LengthBeforeSha256

\* the last call was a string read at a cursor with a whole length prefix
HasPrefix ==
    /\ call.op = "String"
    /\ call.at >= 0
    /\ call.at + 4 <= Len(reader.data)

\* the length prefix of the string read, and the bytes left behind it
Prefix == FromSLE(SubSeq(reader.data, call.at + 1, call.at + 4))

Left == Len(reader.data) - call.at - 4

\* the Prefix bytes behind a positive length prefix
StringBytes == SubSeq(reader.data, call.at + 5, call.at + 4 + Prefix)

\* bytes are valid UTF-8 without a NUL, followed by one NUL
Terminated(bytes) ==
    /\ bytes[Len(bytes)] = 0
    /\ 0 \notin Range(Take(bytes, Len(bytes) - 1))
    /\ Utf8Valid(Take(bytes, Len(bytes) - 1))

\* C14: a string read with a length prefix L > 0 whose bytes are there consumes
\* 4 + L bytes and returns the first L - 1 bytes as text when they are valid
\* UTF-8 followed by one terminating NUL, and fails with InvalidData when they
\* are not; with L = 0 it consumes 4 bytes and returns the empty string.
C14_Utf8String ==
    (HasPrefix /\ Prefix >= 0 /\ Prefix <= Left)
    => IF Prefix = 0
       THEN call.r.err = "" /\ call.r.pos = call.at + 4 /\ call.r.val = <<>>
       ELSE IF Terminated(StringBytes)
       THEN /\ call.r.err = ""
            /\ call.r.pos = call.at + 4 + Prefix
            /\ Utf8Encode(call.r.val) = Take(StringBytes, Prefix - 1)
            /\ reader.position = call.at + 4 + Prefix
       ELSE call.r.err = "InvalidData"

\* C14: a two-character string of three UTF-8 bytes and a NUL has been read
C14_AccentedStringRead ==
    /\ HasPrefix
    /\ Prefix = 4
    /\ call.r.err = ""
    /\ call.r.val = <<104, 233>>
    /\ reader.position = call.at + 8

\* the 2 * |Prefix| bytes behind a negative length prefix, as UTF-16 text
Utf16Text ==
    Utf16Lossy(Units(SubSeq(reader.data, call.at + 5, call.at + 4 - 2 * Prefix)))

\* C15: a string read with a length prefix L < 0 whose bytes are there consumes
\* 4 + 2 * |L| bytes, decodes those bytes and no others as UTF-16LE and strips
\* the NUL at the end of the text; when the bytes are not there (as for the
\* smallest i32) it returns an error.
C15_Utf16String ==
    (HasPrefix /\ Prefix < 0)
    => IF Prefix >= -(Left \div 2)
       THEN /\ call.r.err = ""
            /\ call.r.pos = call.at + 4 - 2 * Prefix
            /\ Utf16Text[Len(Utf16Text)] = 0
               => call.r.val = Take(Utf16Text, Len(Utf16Text) - 1)
       ELSE call.r.err \notin {"", "panic"}

\* C15: the UTF-16 string "h" has been read with its terminator, and with what
\* lay behind the buffer, as part of the text
C15_TerminatorKept ==
    /\ HasPrefix
    /\ Prefix = -2
    /\ call.r.err = ""
    /\ Len(call.r.val) = 4
    /\ call.r.val[1] = 104
    /\ call.r.val[2] = 0

\* the code points of "héllo.txt"
HelloTxt == <<104, 233, 108, 108, 111, 46, 116, 120, 116>>

\* what the string writer is said to emit for s
StringWire(s) ==
    IF s = <<>> THEN <<0, 0, 0, 0>>
    ELSE SLE(Len(Utf8Encode(s)) + 1, 4) \o Utf8Encode(s) \o <<0>>

\* C16: every string the reader can return is written without failure, and
\* reading the written bytes returns the same string; the writer emits four
\* zero bytes for the empty string and otherwise the i32 UTF-8 length plus
\* one, the UTF-8 bytes and one NUL, so that "héllo.txt" gets the
\* prefix 0A 00 00 00
C16_StringRoundTrip ==
    call.op = "write" =>
        /\ ~Panicked(call.written)
        /\ call.r.err = ""
        /\ call.r.val = call.arg
        /\ call.written = StringWire(call.arg)
        /\ (call.arg = HelloTxt => SubSeq(call.written, 1, 4) = <<10, 0, 0, 0>>)

\* C16: a string read from UTF-16 data holds U+0000, and writing it aborts
C16_WriteOfReadStringAborts ==
    /\ call.op = "write"
    /\ 0 \in Range(call.arg)
    /\ Panicked(call.written)

\* C16: written as the rule says, "héllo.txt" gets the prefix 0B 00 00 00
C16_HelloTxtPrefix ==
    /\ call.op = "write"
    /\ call.arg = HelloTxt
    /\ call.written = StringWire(call.arg)
    /\ SubSeq(call.written, 1, 4) = <<11, 0, 0, 0>>
    /\ call.r.err = ""
    /\ call.r.val = call.arg

\* the bytes an integer read of the width call.arg at the cursor call.at covers
IntegerBytes == SubSeq(reader.data, call.at + 1, call.at + call.arg)

\* the cursor of the call and the width read lie within the data; a cursor
\* written -k stands for 2^64 - k, which no width brings back within the data
WithinData == call.at >= 0 /\ call.at + call.arg <= Len(reader.data)

\* C17: an integer read of width n at position pos over len bytes succeeds,
\* returns the little-endian value of the bytes pos..pos+n and advances the
\* cursor by n when pos + n <= len, and fails with Overflow when pos + n > len
C17_IntegerRead ==
    call.op \in IntegerKinds =>
        IF WithinData
        THEN /\ call.r.err = ""
             /\ reader.position = call.at + call.arg
             /\ IntegerBytes = (IF Signed(call.op) THEN SLE(call.r.val, call.arg)
                                ELSE LE(call.r.val, call.arg))
        ELSE /\ call.r.err = "Overflow"
             /\ reader.position = call.at

\* C17: an integer read with the cursor at usize::MAX aborts
C17_ReadAtHugeCursorAborts ==
    /\ call.op \in IntegerKinds
    /\ call.at = -1
    /\ call.r.err = "panic"
    /\ pc = "aborted"

\* C18: after any sequence of read_bytes, integer reads, string reads, seek(p)
\* for any p and tell, read_remaining does not fail: it returns the bytes from
\* the cursor to the end, none when the cursor is at or beyond the end, and
\* leaves the cursor at the end of the data
C18_ReadRemainingTotal ==
    call.op = "read_remaining" =>
        /\ call.r.err = ""
        /\ pc # "aborted"
        /\ reader.position = Len(reader.data)
        /\ call.r.val = (IF call.at >= 0 /\ call.at < Len(reader.data)
                         THEN SubSeq(reader.data, call.at + 1, Len(reader.data))
                         ELSE <<>>)

\* C18: read_remaining with the cursor one past the end of the data aborts
C18_CursorBehindEndAborts ==
    /\ call.op = "read_remaining"
    /\ call.at = Len(reader.data) + 1
    /\ call.r.err = "panic"
    /\ pc = "aborted"

\* the i32 at the cursor of the call
WireLevel == FromSLE(SubSeq(reader.data, call.at + 1, call.at + 4))

\* the labels documented as aliases of other levels
AliasLabels ==
    {"Latest", "LatestJson", "LatestNoChunks", "FirstOptimisedDelta",
     "StoresUniqueBuildId"}

\* C19: for every i32 wire value v that EFeatureLevel::from_i32 accepts,
\* to_i32(from_i32(v)) = v, so that a feature level read is written back with
\* the same numeric value; the accepted values are exactly 0..=18, 255 and
\* -1, and no wire value is read as an alias label
C19_FeatureLevelRoundTrip ==
    (call.op = "EFeatureLevel" /\ call.at >= 0 /\ call.at + 4 <= Len(reader.data)) =>
        /\ call.r.err = "" <=> WireLevel \in (0..18) \cup {255, -1}
        /\ call.r.err = "" =>
              /\ to_i32(call.r.val) = WireLevel
              /\ call.written = SubSeq(reader.data, call.at + 1, call.at + 4)
              /\ call.r.val \notin AliasLabels

\* C19: the wire value 20 is read as Latest and written back as 18
C19_LatestWrittenAsEighteen ==
    /\ call.op = "EFeatureLevel"
    /\ call.at >= 0
    /\ call.at + 4 <= Len(reader.data)
    /\ WireLevel = 20
    /\ call.r.err = ""
    /\ call.r.val = "Latest"
    /\ call.written = SLE(18, 4)

\* the bytes after the header are what serialize makes of the section bytes
\* data under the storage flag stored_as: the zlib stream of data for
\* Compressed, data itself otherwise
StoredUnder(stored_as, data) ==
    IF stored_as = "Compressed"
    THEN /\ Body # data
         /\ Body = Deflate(data)
         /\ Inflate(Body).ok
         /\ Inflate(Body).data = data
    ELSE /\ Body = data
         /\ Body # Deflate(data)

\* C20: FManifest::serialize writes a storage flag byte equal to the stored_as
\* of the manifest's header, and the payload after the header is the
\* zlib-deflated section bytes if and only if that flag is Compressed;
\* otherwise the payload is the section bytes unchanged
C20_StorageFlagKept ==
    (Serialized /\ stages = <<>>) =>
        /\ <<StorageByte>> = write_storage(src.header.stored_as)
        /\ \E order \in Orders(DOMAIN src.custom_fields.fields) :
              \E data \in {uncompressed_data(src, order)} :
                  StoredUnder(src.header.stored_as, data)

\* C20: a manifest whose header says Compressed has been serialized with chunks
\* and files, and its payload is a zlib stream
C20_CompressedManifestWritten ==
    /\ Serialized
    /\ stages = <<>>
    /\ src.header.stored_as = "Compressed"
    /\ StorageByte = 1
    /\ src.chunk_list.chunks # <<>>
    /\ src.file_list.entries # <<>>
    /\ Inflate(Body).ok
    /\ Len(Body) = Len(Inflate(Body).data) + 11

\* the compressed size the header of input declares
DeclaredCompressed == FromLE(SubSeq(input, 13, 16))

\* C21: for every manifest with plain storage, the one a successful parse
\* returns and the one the header serialize emits encodes,
\* data_size_compressed = data_size_uncompressed = the number of payload bytes
\* that follow the header
C21_PlainSizes ==
    /\ (pc = "parsed" /\ man.header.stored_as = "None") =>
          /\ man.header.data_size_compressed = man.header.data_size_uncompressed
          /\ man.header.data_size_uncompressed = Len(input) - man.header.header_size
    /\ (Serialized /\ stages = <<>> /\ StorageByte = 0) =>
          /\ DeclaredCompressed = DeclaredUncompressed
          /\ DeclaredUncompressed = Len(Body)

\* C21: a plain stream whose header declares one byte more than the payload
\* holds has been parsed, and the manifest returned carries the declared size
C21_WrongPlainSizeParsed ==
    /\ pc = "parsed"
    /\ result = "ok"
    /\ man.header.stored_as = "None"
    /\ man.header.data_size_uncompressed = Len(input) - man.header.header_size + 1
    /\ man.header.data_size_compressed = Len(input) - man.header.header_size

RECURSIVE MathSum(_)
\* the mathematical sum of u32 values, on 9 bytes, which it cannot exceed here
MathSum(sizes) ==
    IF sizes = <<>> THEN Repeat(0, 9)
    ELSE Take(AddLE(Widen(Head(sizes), 9), MathSum(Tail(sizes)), 0), 9)

\* the entry and the parts the file list holds
Entry == file_list.entries[1]

Parts == Entry.chunk_parts

\* C22: after every successful FileList parse, for every file entry, file_size
\* equals the mathematical sum of the sizes of its chunk parts and the
\* file_offset of part i equals the sum of the sizes of parts 0..i-1, also
\* when that sum exceeds the range of a 32-bit unsigned integer; the parse
\* does not abort on such a sum
C22_FileSizeIsSum ==
    /\ pc # "failed"
    /\ pc \in {"file_size", "parsed"} =>
          /\ Len(Parts) = Len(SizesOf(input))
          /\ \A i \in DOMAIN Parts :
                /\ Parts[i].size = SizesOf(input)[i]
                /\ Widen(Parts[i].file_offset, 9) = MathSum(SubSeq(SizesOf(input), 1, i - 1))
    /\ pc = "parsed" => Widen(Entry.file_size, 9) = MathSum(SizesOf(input))

\* C22: two parts of 2^31 bytes have been parsed and the file size is 0
C22_FileSizeWrapped ==
    /\ pc = "parsed"
    /\ SizesOf(input) = <<(<<0, 0, 0, 128>>), (<<0, 0, 0, 128>>)>>
    /\ Parts[2].file_offset = Widen(<<0, 0, 0, 128>>, build.usize_bytes)
    /\ Entry.file_size = <<0, 0, 0, 0>>

\* the sum of the sizes fits a u32
SumFits == \A i \in 5..9 : MathSum(SizesOf(input))[i] = 0

\* the well-formed streams: every one with a file has a chunk part whose GUID
\* no chunk of its list has
SoundStreams ==
    {Seal(st, payload) : st \in {"None", "Compressed"}, payload \in WirePayloads}
    \cup {TwinStream}

\* the four limbs of two GUIDs are equal
SameLimbs(g, h) == g.a = h.a /\ g.b = h.b /\ g.c = h.c /\ g.d = h.d

\* the chunks of the manifest parse returned
Chunks == man.chunk_list.chunks

\* C23: parsing a manifest in which a ChunkPart references a GUID that no
\* ChunkList entry has succeeds, and find_by_guid(g) returns none exactly when
\* no chunk of the list has GUID g; otherwise it returns the first chunk in
\* list order whose four limbs all equal those of g
C23_FindByGuid ==
    /\ (mode = "parse" /\ round = 0 /\ input \in SoundStreams) => pc # "failed"
    /\ call.op = "find_by_guid" =>
          /\ call.r.val = <<>> <=> \A i \in DOMAIN Chunks : ~SameLimbs(Chunks[i].guid, call.arg)
          /\ call.r.val # <<>> =>
                \E i \in DOMAIN Chunks :
                    /\ call.r.val = <<Chunks[i]>>
                    /\ SameLimbs(Chunks[i].guid, call.arg)
                    /\ \A j \in 1..(i - 1) : ~SameLimbs(Chunks[j].guid, call.arg)

\* C23: a manifest has been parsed whose second chunk part refers to a GUID no
\* chunk has: the lookup of that GUID returned none, and among three chunks
\* the lookup of the GUID of the first part returned the second chunk
C23_SecondOfThreeFound ==
    /\ pc = "parsed"
    /\ result = "ok"
    /\ Len(Chunks) = 3
    /\ \E i \in DOMAIN man.file_list.entries :
          \A c \in DOMAIN Chunks :
              Chunks[c].guid # man.file_list.entries[i].chunk_parts[2].guid
    /\ call.op = "find_by_guid"
    /\ call.arg = Chunks[3].guid
    /\ call.arg.a = Chunks[1].guid.a
    /\ call.r.val = <<Chunks[2]>>
    /\ Chunks[2] # Chunks[3]

\* bit k of the flags byte f is set
BitSet(f, k) == (f \div 2 ^ k) % 2 = 1

\* C24: for every flags byte f of a file entry, read_only() is true iff bit 0
\* of f is set, compressed() is true iff bit 1 of f is set, and executable()
\* is true iff bit 2 of f is set
C24_FlagBits ==
    /\ call.op = "read_only" => (call.r.val <=> BitSet(call.arg, 0))
    /\ call.op = "compressed" => (call.r.val <=> BitSet(call.arg, 1))
    /\ call.op = "executable" => (call.r.val <=> BitSet(call.arg, 2))

\* C24: an entry with all three bits set is reported neither compressed nor
\* executable
C24_SetBitsReportedClear ==
    /\ call.arg = 7
    /\ file_list.entries[1].flags = 7
    /\ call.op \in {"compressed", "executable"}
    /\ call.r.val = FALSE

\* the stages of parse in their order
StageOrder == <<"header", "meta", "chunk_list", "file_list", "custom_fields">>

\* the errors the envelope checks return, those of decompression and of hash
\* verification come after them
EnvelopeErrors ==
    {"Overflow", "InvalidMagic", "InvalidStorageFlag", "InvalidData", "OffsetMismatch"}

\* C25: parse runs its stages in the order envelope, decompress, hash-verify,
\* Meta, ChunkList, FileList, CustomFields, each stage starting at the cursor
\* where the previous one ended, and the error it returns is the error of the
\* first stage in that order that fails; a payload that fails integrity
\* checking is never handed to a section parser
C25_StageOrder ==
    /\ Len(stages) <= Len(StageOrder)
    /\ \A i \in DOMAIN stages : stages[i].stage = StageOrder[i]
    /\ Len(stages) >= 2 => stages[2].start = 0
    /\ \A i \in 3..Len(stages) : stages[i].start = stages[i - 1].end
    /\ (pc = "failed" /\ stages # <<>>) => failed_at = stages[Len(stages)].stage
    /\ (pc = "failed" /\ failed_at = "header" /\ result = "DecompressionError") =>
          WellFormedHeader
    /\ (pc = "failed" /\ failed_at = "header" /\ result = "HashMismatch") =>
          WellFormedHeader /\ Inflates
    /\ Len(stages) >= 2 =>
          /\ Len(reader.data) = DeclaredUncompressed
          /\ Sha1(reader.data) = StoredHash

\* C25: the Meta parser has run on a plain payload whose SHA-1 is not the one
\* the header stores
C25_UnverifiedPayloadParsed ==
    /\ Len(stages) >= 2
    /\ stages[2].stage = "meta"
    /\ StorageByte = 0
    /\ Sha1(reader.data) # StoredHash

\* the ChunkList section serialize wrote, and the chunks it was given
ChunkSection == SectionBytes(Payload, 2)

SourceChunks == src.chunk_list.chunks

\* entry i of the column of the section that starts at the 0-based offset
\* start and holds width bytes per chunk
Cell(start, width, i) ==
    SubSeq(ChunkSection, start + width * (i - 1) + 1, start + width * i)

\* the section holds the attributes of SourceChunks in six contiguous columns
\* behind size, version and count
InColumns ==
    LET n == Len(SourceChunks)
    IN  /\ Len(ChunkSection) = 9 + 57 * n
        /\ ChunkSection[5] = src.chunk_list._version
        /\ FromLE(SubSeq(ChunkSection, 6, 9)) = n
        /\ \A i \in 1..n :
              /\ Cell(9, 16, i) = write_guid(SourceChunks[i].guid)
              /\ FromLE(Cell(9 + 16 * n, 8, i)) = SourceChunks[i].hash
              /\ Cell(9 + 24 * n, 20, i) = SourceChunks[i].sha_hash
              /\ Cell(9 + 44 * n, 1, i) = <<SourceChunks[i].group_num>>
              /\ FromLE(Cell(9 + 45 * n, 4, i)) = SourceChunks[i].uncompressed_size
              /\ FromSLE(Cell(9 + 49 * n, 8, i)) = SourceChunks[i].compressed_size

\* C26: FChunkList::write emits version, count, then six contiguous columns in
\* the order GUIDs, rolling hashes, SHA-1s, group numbers, uncompressed sizes,
\* compressed sizes, and FChunkList::parse of the written bytes succeeds and
\* returns the same entries in the same order with all six attributes equal,
\* for every list including the empty one
C26_ChunkColumns ==
    (Serialized /\ stages = <<>>) =>
        /\ InColumns
        /\ \E r \in {chunk_list_parse(ChunkSection, 0, src.header.version)} :
              /\ r.err = ""
              /\ r.pos = Len(ChunkSection)
              /\ r.val.chunks = SourceChunks

\* C26: a list of three chunks has been written, and so has the empty list in
\* another run
C26_ThreeChunksWritten ==
    /\ Serialized
    /\ stages = <<>>
    /\ Len(SourceChunks) = 3
    /\ SourceChunks[1] # SourceChunks[2]
    /\ InColumns
    /\ chunk_list_parse(ChunkSection, 0, src.header.version).val.chunks = SourceChunks

\* the pair count the CustomFields section of the parsed payload declares
DeclaredPairs ==
    FromSLE(SubSeq(reader.data, stages[5].start + 6, stages[5].start + 9))

\* C27: a successful CustomFields parse of a section declaring count pairs
\* yields a mapping with exactly count distinct keys, and FCustomFields::write
\* followed by FCustomFields::parse returns the same mapping, whatever the
\* order in which the pairs are written
C27_CustomFieldsMap ==
    /\ (pc = "parsed" /\ Len(stages) = 5) =>
          Cardinality(DOMAIN man.custom_fields.fields) = DeclaredPairs
    /\ (Serialized /\ stages = <<>>) =>
          \E r \in {custom_fields_parse(SectionBytes(Payload, 4), 0)} :
              /\ r.err = ""
              /\ DOMAIN r.val.fields = DOMAIN src.custom_fields.fields
              /\ \A k \in DOMAIN r.val.fields : r.val.fields[k] = src.custom_fields.fields[k]

\* C27: a section that declares two pairs has been parsed into a mapping of
\* one key, which holds the value of the second pair
C27_TwoPairsOneKey ==
    /\ pc = "parsed"
    /\ result = "ok"
    /\ Len(stages) = 5
    /\ DeclaredPairs = 2
    /\ DOMAIN man.custom_fields.fields = {FieldKey(1)}
    /\ man.custom_fields.fields[FieldKey(1)] = <<87>>

\* the last call was read_bytes or an integer read
WasRead == call.op \in {"read_bytes"} \cup IntegerKinds

\* what the last call left behind: a failed read_bytes the cursor where it
\* was, a successful one the cursor advanced by the size read, with the bytes
\* in between returned; no read a cursor before the one it met
AfterRead ==
    /\ 0 <= reader.position
    /\ reader.position <= Len(reader.data)
    /\ WasRead =>
          /\ call.r.err \in {"", "Overflow"}
          /\ reader.position >= call.at
    /\ (call.op = "read_bytes" /\ call.r.err = "Overflow") =>
          /\ reader.position = call.at
          /\ call.at + call.arg > Len(reader.data)
    /\ (call.op = "read_bytes" /\ call.r.err = "") =>
          /\ reader.position = call.at + call.arg
          /\ call.r.val = SubSeq(reader.data, call.at + 1, call.at + call.arg)

\* C28: a read_bytes(n) call that fails with Overflow leaves the reader's
\* cursor and data unchanged, and a successful one advances the cursor by
\* exactly n; in any sequence of read_bytes and integer reads without seek,
\* the cursor never decreases and always satisfies 0 <= position <= len
C28_CursorMonotone ==
    /\ []AfterRead
    /\ [][/\ reader'.data = reader.data
          /\ reader'.position >= reader.position
          /\ call'.at = reader.position]_vars

\* C28: a read_bytes of three bytes has failed two bytes before the end, and
\* the cursor has stayed where it was, behind the start of the data
C28_OverflowLeftCursor ==
    /\ call.op = "read_bytes"
    /\ call.arg = 3
    /\ call.r.err = "Overflow"
    /\ call.at = Len(reader.data) - 2
    /\ call.at > 0
    /\ reader.position = call.at

\* the uncompressed payload of the stream the manifest given to serialize was
\* parsed from
ParsedPayload ==
    IF src.data[37] = 1 THEN Inflate(Drop(src.data, HeaderLength)).data
    ELSE Drop(src.data, HeaderLength)

\* the data-version byte of section i of a payload
SectionVersion(payload, i) == payload[SectionOffsets(payload)[i] + 5]

\* serialize has written a manifest that parse returned for a well-formed stream
Reserialized == Serialized /\ stages = <<>> /\ src.data \in SoundStreams

\* C29: for every valid manifest byte stream b, serialize(parse(b)) emits each
\* of the four sections with the data-version byte that b declared for that
\* section, so a Meta section read at version 0 or 1 is not written back at
\* another version with fields it did not have
C29_SectionVersionsKept ==
    Reserialized =>
        /\ \A i \in 1..4 : SectionVersion(Payload, i) = SectionVersion(ParsedPayload, i)
        /\ Len(SectionBytes(Payload, 1)) = Len(SectionBytes(ParsedPayload, 1))

\* C29: a stream whose Meta section declares version 0 has been parsed and
\* written back with a Meta section of version 2, longer by the three strings
\* version 0 does not have
C29_MetaWrittenAtVersionTwo ==
    /\ Reserialized
    /\ SectionVersion(ParsedPayload, 1) = 0
    /\ SectionVersion(Payload, 1) = 2
    /\ Len(SectionBytes(Payload, 1)) = Len(SectionBytes(ParsedPayload, 1)) + 12

\* C30: parse succeeds only if the four sections account for the whole
\* uncompressed payload: after CustomFields has been read the cursor is at the
\* end of the payload, so an input with extra bytes after the CustomFields
\* section is rejected
C30_WholePayloadRead ==
    pc = "parsed" =>
        /\ stages[Len(stages)].stage = "custom_fields"
        /\ stages[Len(stages)].end = reader.position
        /\ reader.position = Len(reader.data)

\* C30: parse has returned a manifest for a payload that goes on after the
\* end of its CustomFields section
C30_TrailingBytesParsed ==
    /\ pc = "parsed"
    /\ stages[Len(stages)].stage = "custom_fields"
    /\ stages[Len(stages)].end = reader.position
    /\ reader.position < Len(reader.data)

=============================================================================
